---- MODULE Spec2Model ----
(***************************************************************************)
(* A model of the resource Loader of quasilyte/ebitengine-resource:        *)
(* five metadata registries, seven memoization tables, the two function    *)
(* hooks (OpenAssetFunc, CustomAudioLoader) and every Load/Get/Set         *)
(* operation of the Loader.                                                *)
(*                                                                         *)
(* A Go panic ends the call that raised it; the Loader survives it (the    *)
(* caller may recover), so a failed call is a step like any other and the  *)
(* state it leaves behind is the state the deferred functions and the      *)
(* assignments executed before the panic produced.                         *)
(***************************************************************************)
EXTENDS Integers, Sequences, FiniteSets, TLC

\* ------------------------------------------------------------------ bounds

\* Identifiers of every kind range over 1..MaxID.
MaxID == 2
\* The identifiers 1..MaxBound are the ones the client binds, in one registry.
MaxBound == 1
\* At most MaxOpens asset opens are made for one identifier of one table.
MaxOpens == 2
\* Number of concurrent callers of the interleaved specification.
NumCallers == 2

IDs == 1..MaxID

\* ------------------------------------------------------- metadata records

\* A path is the sequence of its characters; the file name stem is one token.
Path(stem, ext) == <<stem>> \o ext

TxtExt == <<".", "t", "x", "t">>
KageExt == <<".", "k", "a", "g", "e">>
PngExt == <<".", "p", "n", "g">>
TtfExt == <<".", "t", "t", "f">>
OggExt == <<".", "o", "g", "g">>
WavExt == <<".", "w", "a", "v">>
XmExt == <<".", "x", "m">>

RawInfos == {[Path |-> Path("a", TxtExt)], [Path |-> Path("b", TxtExt)]}

ShaderInfos == {[Path |-> Path("a", KageExt)], [Path |-> Path("b", KageExt)]}

ImageInfos ==
    {[Path |-> Path("a", PngExt), FrameWidth |-> 0, FrameHeight |-> 0],
     [Path |-> Path("b", PngExt), FrameWidth |-> 16, FrameHeight |-> 32]}

\* LineSpacing is kept in tenths (12 is 1.2).
FontInfos ==
    {[Path |-> Path("a", TtfExt), Size |-> 10, LineSpacing |-> 0],
     [Path |-> Path("b", TtfExt), Size |-> 14, LineSpacing |-> 12]}

\* Volume is kept in hundredths (-100 is -1.0); StreamDecorator is "nil" or
\* the name of the decorator function.
AudioInfos ==
    {[Path |-> Path("a", OggExt), Group |-> 1, Volume |-> 0, StreamDecorator |-> "nil"],
     [Path |-> Path("b", OggExt), Group |-> 0, Volume |-> 100, StreamDecorator |-> "LoopOGG"],
     [Path |-> Path("a", WavExt), Group |-> 0, Volume |-> -100, StreamDecorator |-> "nil"],
     [Path |-> Path("b", WavExt), Group |-> 2, Volume |-> -20, StreamDecorator |-> "NopDecorator"],
     [Path |-> Path("a", XmExt), Group |-> 1, Volume |-> 100, StreamDecorator |-> "nil"]}

\* The asset sources OpenAssetFunc can be set to; the bytes a path yields
\* depend on the source.
AssetFuncs == {"fsA", "fsB"}

\* CustomAudioLoader: nil, a loader that handles ".xm", one that declines all.
CustomLoaders == {"nil", "xm", "declining"}

\* ------------------------------------------------------------------ state

VARIABLES
    OpenAssetFunc, CustomAudioLoader,
    ImageRegistry, AudioRegistry, FontRegistry, ShaderRegistry, RawRegistry,
    images, shaders, wavs, oggs, customAudio, fonts, raws,
    opens,      \* history: asset opens per table and identifier
    decodes,    \* history: decoder (or custom loader) invocations per table and identifier
    call,       \* history: what the last operation did and returned
    callers,    \* the callers in flight (interleaved specification only)
    other       \* the fields of the client's second Loader (two-Loader specification only)

hooks == <<OpenAssetFunc, CustomAudioLoader>>
registries == <<ImageRegistry, AudioRegistry, FontRegistry, ShaderRegistry, RawRegistry>>
tables == <<images, shaders, wavs, oggs, customAudio, fonts, raws>>
history == <<opens, decodes, call>>
vars == <<hooks, registries, tables, history, callers, other>>

Tables == {"images", "shaders", "wavs", "oggs", "customAudio", "fonts", "raws"}

EmptyMap == [x \in {} |-> 0]

\* A caller that has issued no call.
Idle == [pc |-> "idle"]

\* ----------------------------------------------------------- registry.go

\* Mutant of Assign: the range returns after its first pair.
Assign_FirstOnly(mapping, m, order) ==
    IF order = <<>> THEN mapping
    ELSE [x \in DOMAIN mapping \cup {Head(order)} |->
             IF x = Head(order) THEN m[Head(order)] ELSE mapping[x]]

\* Mutant of Set: an identifier already bound keeps its metadata.
Set_KeepBound(mapping, id, info) ==
    IF id \in DOMAIN mapping THEN mapping
    ELSE [x \in DOMAIN mapping \cup {id} |-> IF x = id THEN info ELSE mapping[x]]

\* r.mapping[id] = info
Set(mapping, id, info) ==
    [x \in DOMAIN mapping \cup {id} |-> IF x = id THEN info ELSE mapping[x]]

\* for k, v := range m { r.Set(k, v) }, the keys visited in the order `order`
RECURSIVE Assign(_, _, _)
Assign(mapping, m, order) ==
    IF order = <<>> THEN mapping
    ELSE Assign(Set(mapping, Head(order), m[Head(order)]), m, Tail(order))

\* The orders in which a range over the keys S can visit them.
Orders(S) ==
    {o \in [1..Cardinality(S) -> S] : \A i, j \in 1..Cardinality(S) : i # j => o[i] # o[j]}

\* The arguments of Assign, each with an order in which the range visits it.
Batches(Infos) ==
    UNION {[m : [S -> Infos], order : Orders(S)] : S \in SUBSET IDs}

RawBatches == Batches(RawInfos)
ImageBatches == Batches(ImageInfos)
FontBatches == Batches(FontInfos)
ShaderBatches == Batches(ShaderInfos)
AudioBatches == Batches(AudioInfos)

\* The registries by kind.
Registry(kind) ==
    CASE kind = "image" -> ImageRegistry
      [] kind = "audio" -> AudioRegistry
      [] kind = "font" -> FontRegistry
      [] kind = "shader" -> ShaderRegistry
      [] kind = "raw" -> RawRegistry

Kinds == {"image", "audio", "font", "shader", "raw"}

\* The client works with one kind: no identifier of another kind is bound.
OnlyKind(kind) == \A k \in Kinds \ {kind} : DOMAIN Registry(k) = {}

\* The bound on bound identifiers, for a registry about to bind `new`: the
\* client binds the identifiers 1..MaxBound, and loads any of 1..MaxID.
WithinBound(mapping, new) == new \subseteq 1..MaxBound

\* ------------------------------------------------------- calls and errors

NoErr == [err |-> "none", kind |-> "", id |-> 0, path |-> <<>>]

\* panic(fmt.Sprintf("unregistered <kind> with id=%d", id))
Unregistered(kind, id) == [err |-> "unregistered", kind |-> kind, id |-> id, path |-> <<>>]

\* panic(fmt.Sprintf("<stage> %q <kind>: %v", path, err))
PathErr(stage, kind, path) == [err |-> stage, kind |-> kind, id |-> 0, path |-> path]

\* What the asset opener yields for a path: the bytes of that path in the
\* current asset source.
OpenAsset(path) == [fs |-> OpenAssetFunc, path |-> path]

\* The pointer of the n-th object constructed for an identifier of a table.
NewObj(table, id) == <<table, id, decodes[table][id] + 1>>

\* The outcome of a call that found its resource in the table.
Hit(res) ==
    [ret |-> <<res>>, err |-> NoErr, store |-> <<>>,
     opened |-> <<>>, closed |-> 0, decoded |-> 0, custom |-> 0, decorated |-> 0]

\* The outcome of an operation that returns nothing and cannot fail.
Done == [ret |-> <<>>, err |-> NoErr, store |-> <<>>,
         opened |-> <<>>, closed |-> 0, decoded |-> 0, custom |-> 0, decorated |-> 0]

\* The record of an operation: its name, its identifier and metadata
\* arguments, whether a Set replaced a binding, and its outcome.
Call(op, kind, id, arg, replaced, out) ==
    [op |-> op, kind |-> kind, id |-> id, arg |-> arg, replaced |-> replaced] @@ out

\* For a Set: it replaced a different binding of the identifier. For a Load:
\* it comes right after such a Set of its identifier.
Replaced(kind, id) ==
    IF call.op = "Set" /\ call.kind = kind /\ call.id = id THEN call.replaced ELSE FALSE

\* The outcome of a call that panicked before opening anything.
Abort(e) ==
    [ret |-> <<>>, err |-> e, store |-> <<>>,
     opened |-> <<>>, closed |-> 0, decoded |-> 0, custom |-> 0, decorated |-> 0]

\* The outcome of a call that opened `path`, ran under the deferred Close of
\* the stream and ended with panic `e` (NoErr: no panic) after storing `store`.
\* The deferred function runs on every exit; a failing Close panics in place
\* of whatever the call was returning or raising.
Deferred(kind, path, closeFails, e, res, decoded) ==
    [ret |-> IF e = NoErr /\ ~closeFails THEN res ELSE <<>>,
     err |-> IF closeFails THEN PathErr("closing", kind, path) ELSE e,
     store |-> IF e = NoErr THEN res ELSE <<>>,
     opened |-> <<path>>, closed |-> 1, decoded |-> decoded,
     custom |-> 0, decorated |-> 0]

\* What the environment does to one call: the stage that fails ("none": no
\* stage fails) and whether Close returns an error.
Envs(stages) == [fail : {"none"} \cup stages, close : BOOLEAN]

\* The environment of a call that reaches the asset opener only if `opening`.
EnvsOf(opening, stages) ==
    IF opening THEN Envs(stages) ELSE {[fail |-> "none", close |-> FALSE]}

\* ---------------------------------------------------------------- LoadRaw

\* Mutant of NewRaw: Data is left empty.
NewRaw_Empty(id, data) ==
    [ID |-> id, Data |-> [obj |-> NewObj("raws", id), bytes |-> [fs |-> data.fs, path |-> <<>>]]]

\* Raw{ID: id, Data: data}: a fresh byte slice holding what the stream yielded
NewRaw(id, data) == [ID |-> id, Data |-> [obj |-> NewObj("raws", id), bytes |-> data]]

\* Mutant of LoadRawRun: a missing RawInfo is read as the zero RawInfo.
LoadRawRun_NoRegistryCheck(id, env) ==
    IF id \in DOMAIN raws THEN Hit(raws[id])
    ELSE LET rawInfo == IF id \in DOMAIN RawRegistry THEN RawRegistry[id]
                        ELSE [Path |-> <<>>]
             raw == NewRaw(id, OpenAsset(rawInfo.Path))
         IN  IF env.fail = "read"
             THEN Deferred("raw", rawInfo.Path, env.close,
                           PathErr("read", "raw", rawInfo.Path), <<>>, 1)
             ELSE Deferred("raw", rawInfo.Path, env.close, NoErr, <<raw>>, 1)

\* Mutant of LoadRawRun: the table is not consulted.
LoadRawRun_NoMemo(id, env) ==
    IF id \notin DOMAIN RawRegistry THEN Abort(Unregistered("raw", id))
    ELSE LET rawInfo == RawRegistry[id]
             raw == NewRaw(id, OpenAsset(rawInfo.Path))
         IN  IF env.fail = "read"
             THEN Deferred("raw", rawInfo.Path, env.close,
                           PathErr("read", "raw", rawInfo.Path), <<>>, 1)
             ELSE Deferred("raw", rawInfo.Path, env.close, NoErr, <<raw>>, 1)

LoadRawRun(id, env) ==
    IF id \in DOMAIN raws THEN Hit(raws[id])
    ELSE IF id \notin DOMAIN RawRegistry THEN Abort(Unregistered("raw", id))
    ELSE LET rawInfo == RawRegistry[id]
             raw == NewRaw(id, OpenAsset(rawInfo.Path))
         IN  IF env.fail = "read"
             THEN Deferred("raw", rawInfo.Path, env.close,
                           PathErr("read", "raw", rawInfo.Path), <<>>, 1)
             ELSE Deferred("raw", rawInfo.Path, env.close, NoErr, <<raw>>, 1)

\* The table after a call: l.<table>[id] = res when the call stored one.
Stored(table, id, out) ==
    IF out.store = <<>> THEN table ELSE Set(table, id, out.store[1])

\* The history after a call on an identifier of a table.
Count(counter, table, id, n) ==
    [counter EXCEPT ![table][id] = @ + n]

RECURSIVE SumTo(_, _)
SumTo(f, n) == IF n = 0 THEN 0 ELSE f[n] + SumTo(f, n - 1)

\* The asset opens made so far, over all tables and identifiers.
TotalOpens ==
    SumTo(opens.images, MaxID) + SumTo(opens.shaders, MaxID) + SumTo(opens.wavs, MaxID)
    + SumTo(opens.oggs, MaxID) + SumTo(opens.customAudio, MaxID)
    + SumTo(opens.fonts, MaxID) + SumTo(opens.raws, MaxID)

Record(op, kind, table, id, out) ==
    /\ out.opened # <<>> => TotalOpens < MaxOpens
    /\ opens' = IF out.opened = <<>> THEN opens ELSE Count(opens, table, id, Len(out.opened))
    /\ decodes' = IF out.decoded = 0 THEN decodes ELSE Count(decodes, table, id, out.decoded)
    /\ call' = Call(op, kind, id, <<>>, Replaced(kind, id), [table |-> table] @@ out)

LoadRaw(id) ==
    /\ OnlyKind("raw")
    /\ \E env \in EnvsOf(id \notin DOMAIN raws /\ id \in DOMAIN RawRegistry, {"read"}) :
        LET out == LoadRawRun(id, env) IN
        /\ raws' = Stored(raws, id, out)
        /\ Record("LoadRaw", "raw", "raws", id, out)
        /\ UNCHANGED <<hooks, registries, images, shaders, wavs, oggs, customAudio, fonts, callers, other>>

SetRaw(id, info) ==
    /\ OnlyKind("raw")
    /\ WithinBound(RawRegistry, {id})
    /\ RawRegistry' = Set(RawRegistry, id, info)
    /\ call' = Call("Set", "raw", id, <<info>>,
                    id \in DOMAIN RawRegistry /\ RawRegistry[id] # info,
                    [table |-> ""] @@ Done)
    /\ UNCHANGED <<hooks, ImageRegistry, AudioRegistry, FontRegistry, ShaderRegistry,
                   tables, opens, decodes, callers, other>>

AssignRaw(m, order) ==
    /\ OnlyKind("raw")
    /\ WithinBound(RawRegistry, DOMAIN m)
    /\ RawRegistry' = Assign(RawRegistry, m, order)
    /\ call' = Call("Assign", "raw", 0, <<m>>, FALSE, [table |-> ""] @@ Done)
    /\ UNCHANGED <<hooks, ImageRegistry, AudioRegistry, FontRegistry, ShaderRegistry,
                   tables, opens, decodes, callers, other>>

\* Mutant of GetRawInfoRun: the metadata the loaded resource came from.
GetRawInfoRun_Loaded(id) ==
    IF id \in DOMAIN raws THEN [Path |-> raws[id].Data.bytes.path]
    ELSE IF id \in DOMAIN RawRegistry THEN RawRegistry[id]
    ELSE [Path |-> <<>>]

\* l.RawRegistry.mapping[id]: the zero value when id is unbound
GetRawInfoRun(id) ==
    IF id \in DOMAIN RawRegistry THEN RawRegistry[id]
    ELSE [Path |-> <<>>]

GetRawInfo(id) ==
    /\ OnlyKind("raw")
    /\ call' = Call("GetInfo", "raw", id, <<>>, FALSE,
                    [table |-> ""] @@ Hit(GetRawInfoRun(id)))
    /\ UNCHANGED <<hooks, registries, tables, opens, decodes, callers, other>>

\* -------------------------------------------------------------- LoadImage

\* Mutant of LoadImageRun: the Image is stored before the decoder is asked.
LoadImageRun_StoreEarly(id, env) ==
    IF id \in DOMAIN images THEN Hit(images[id])
    ELSE IF id \notin DOMAIN ImageRegistry THEN Abort(Unregistered("image", id))
    ELSE LET imageInfo == ImageRegistry[id]
             data == [obj |-> NewObj("images", id), bytes |-> OpenAsset(imageInfo.Path)]
             img == [ID |-> id, Data |-> data,
                     DefaultFrameWidth |-> imageInfo.FrameWidth,
                     DefaultFrameHeight |-> imageInfo.FrameHeight]
         IN  IF env.fail = "decode"
             THEN [Deferred("image", imageInfo.Path, env.close,
                            PathErr("decode", "image", imageInfo.Path), <<>>, 1)
                       EXCEPT !.store = <<img>>]
             ELSE Deferred("image", imageInfo.Path, env.close, NoErr, <<img>>, 1)

\* Mutant of LoadImageRun: the frame size of the metadata is dropped.
LoadImageRun_ZeroFrame(id, env) ==
    IF id \in DOMAIN images THEN Hit(images[id])
    ELSE IF id \notin DOMAIN ImageRegistry THEN Abort(Unregistered("image", id))
    ELSE LET imageInfo == ImageRegistry[id]
             data == [obj |-> NewObj("images", id), bytes |-> OpenAsset(imageInfo.Path)]
             img == [ID |-> id, Data |-> data,
                     DefaultFrameWidth |-> 0, DefaultFrameHeight |-> 0]
         IN  IF env.fail = "decode"
             THEN Deferred("image", imageInfo.Path, env.close,
                           PathErr("decode", "image", imageInfo.Path), <<>>, 1)
             ELSE Deferred("image", imageInfo.Path, env.close, NoErr, <<img>>, 1)

LoadImageRun(id, env) ==
    IF id \in DOMAIN images THEN Hit(images[id])
    ELSE IF id \notin DOMAIN ImageRegistry THEN Abort(Unregistered("image", id))
    ELSE LET imageInfo == ImageRegistry[id]
             data == [obj |-> NewObj("images", id), bytes |-> OpenAsset(imageInfo.Path)]
             img == [ID |-> id, Data |-> data,
                     DefaultFrameWidth |-> imageInfo.FrameWidth,
                     DefaultFrameHeight |-> imageInfo.FrameHeight]
         IN  IF env.fail = "decode"
             THEN Deferred("image", imageInfo.Path, env.close,
                           PathErr("decode", "image", imageInfo.Path), <<>>, 1)
             ELSE Deferred("image", imageInfo.Path, env.close, NoErr, <<img>>, 1)

LoadImage(id) ==
    /\ OnlyKind("image")
    /\ \E env \in EnvsOf(id \notin DOMAIN images /\ id \in DOMAIN ImageRegistry, {"decode"}) :
        LET out == LoadImageRun(id, env) IN
        /\ images' = Stored(images, id, out)
        /\ Record("LoadImage", "image", "images", id, out)
        /\ UNCHANGED <<hooks, registries, shaders, wavs, oggs, customAudio, fonts, raws, callers, other>>

SetImage(id, info) ==
    /\ OnlyKind("image")
    /\ WithinBound(ImageRegistry, {id})
    /\ ImageRegistry' = Set(ImageRegistry, id, info)
    /\ call' = Call("Set", "image", id, <<info>>,
                    id \in DOMAIN ImageRegistry /\ ImageRegistry[id] # info,
                    [table |-> ""] @@ Done)
    /\ UNCHANGED <<hooks, AudioRegistry, FontRegistry, ShaderRegistry, RawRegistry,
                   tables, opens, decodes, callers, other>>

AssignImage(m, order) ==
    /\ OnlyKind("image")
    /\ WithinBound(ImageRegistry, DOMAIN m)
    /\ ImageRegistry' = Assign(ImageRegistry, m, order)
    /\ call' = Call("Assign", "image", 0, <<m>>, FALSE, [table |-> ""] @@ Done)
    /\ UNCHANGED <<hooks, AudioRegistry, FontRegistry, ShaderRegistry, RawRegistry,
                   tables, opens, decodes, callers, other>>

\* l.ImageRegistry.mapping[id]: the zero value when id is unbound
GetImageInfoRun(id) ==
    IF id \in DOMAIN ImageRegistry THEN ImageRegistry[id]
    ELSE [Path |-> <<>>, FrameWidth |-> 0, FrameHeight |-> 0]

GetImageInfo(id) ==
    /\ OnlyKind("image")
    /\ call' = Call("GetInfo", "image", id, <<>>, FALSE,
                    [table |-> ""] @@ Hit(GetImageInfoRun(id)))
    /\ UNCHANGED <<hooks, registries, tables, opens, decodes, callers, other>>

\* --------------------------------------------------------------- LoadFont

\* The line height of the face in tenths of the base height: the base height
\* unless LineSpacing is neither 0 nor 1, then round(base * LineSpacing).
LineHeight(fontInfo) ==
    IF fontInfo.LineSpacing # 0 /\ fontInfo.LineSpacing # 10
    THEN fontInfo.LineSpacing ELSE 10

\* Mutant of LoadFontRun: a font that fails to parse yields the zero Font.
LoadFontRun_Placeholder(id, env) ==
    IF id \in DOMAIN fonts THEN Hit(fonts[id])
    ELSE IF id \notin DOMAIN FontRegistry THEN Abort(Unregistered("font", id))
    ELSE LET fontInfo == FontRegistry[id]
             face == [obj |-> NewObj("fonts", id), bytes |-> OpenAsset(fontInfo.Path),
                      Size |-> fontInfo.Size, LineHeight |-> LineHeight(fontInfo)]
             f == [ID |-> id, Face |-> face]
             zero == [ID |-> 0, Face |-> [obj |-> <<>>, bytes |-> <<>>, Size |-> 0, LineHeight |-> 0]]
         IN  IF env.fail = "read"
             THEN Deferred("font", fontInfo.Path, env.close,
                           PathErr("reading", "font", fontInfo.Path), <<>>, 0)
             ELSE IF env.fail = "decode"
             THEN [Deferred("font", fontInfo.Path, env.close, NoErr, <<>>, 1)
                       EXCEPT !.ret = <<zero>>]
             ELSE IF env.fail = "build"
             THEN Deferred("font", fontInfo.Path, env.close,
                           PathErr("creating a font face", "font", fontInfo.Path), <<>>, 1)
             ELSE Deferred("font", fontInfo.Path, env.close, NoErr, <<f>>, 1)

LoadFontRun(id, env) ==
    IF id \in DOMAIN fonts THEN Hit(fonts[id])
    ELSE IF id \notin DOMAIN FontRegistry THEN Abort(Unregistered("font", id))
    ELSE LET fontInfo == FontRegistry[id]
             face == [obj |-> NewObj("fonts", id), bytes |-> OpenAsset(fontInfo.Path),
                      Size |-> fontInfo.Size, LineHeight |-> LineHeight(fontInfo)]
             f == [ID |-> id, Face |-> face]
         IN  IF env.fail = "read"
             THEN Deferred("font", fontInfo.Path, env.close,
                           PathErr("reading", "font", fontInfo.Path), <<>>, 0)
             ELSE IF env.fail = "decode"
             THEN Deferred("font", fontInfo.Path, env.close,
                           PathErr("parsing", "font", fontInfo.Path), <<>>, 1)
             ELSE IF env.fail = "build"
             THEN Deferred("font", fontInfo.Path, env.close,
                           PathErr("creating a font face", "font", fontInfo.Path), <<>>, 1)
             ELSE Deferred("font", fontInfo.Path, env.close, NoErr, <<f>>, 1)

LoadFont(id) ==
    /\ OnlyKind("font")
    /\ \E env \in EnvsOf(id \notin DOMAIN fonts /\ id \in DOMAIN FontRegistry, {"read", "decode", "build"}) :
        LET out == LoadFontRun(id, env) IN
        /\ fonts' = Stored(fonts, id, out)
        /\ Record("LoadFont", "font", "fonts", id, out)
        /\ UNCHANGED <<hooks, registries, images, shaders, wavs, oggs, customAudio, raws, callers, other>>

SetFont(id, info) ==
    /\ OnlyKind("font")
    /\ WithinBound(FontRegistry, {id})
    /\ FontRegistry' = Set(FontRegistry, id, info)
    /\ call' = Call("Set", "font", id, <<info>>,
                    id \in DOMAIN FontRegistry /\ FontRegistry[id] # info,
                    [table |-> ""] @@ Done)
    /\ UNCHANGED <<hooks, ImageRegistry, AudioRegistry, ShaderRegistry, RawRegistry,
                   tables, opens, decodes, callers, other>>

AssignFont(m, order) ==
    /\ OnlyKind("font")
    /\ WithinBound(FontRegistry, DOMAIN m)
    /\ FontRegistry' = Assign(FontRegistry, m, order)
    /\ call' = Call("Assign", "font", 0, <<m>>, FALSE, [table |-> ""] @@ Done)
    /\ UNCHANGED <<hooks, ImageRegistry, AudioRegistry, ShaderRegistry, RawRegistry,
                   tables, opens, decodes, callers, other>>

\* l.FontRegistry.mapping[id]: the zero value when id is unbound
GetFontInfoRun(id) ==
    IF id \in DOMAIN FontRegistry THEN FontRegistry[id]
    ELSE [Path |-> <<>>, Size |-> 0, LineSpacing |-> 0]

GetFontInfo(id) ==
    /\ OnlyKind("font")
    /\ call' = Call("GetInfo", "font", id, <<>>, FALSE,
                    [table |-> ""] @@ Hit(GetFontInfoRun(id)))
    /\ UNCHANGED <<hooks, registries, tables, opens, decodes, callers, other>>

\* ------------------------------------------------------------- LoadShader

\* Mutant of LoadShaderRun: the table is not consulted.
LoadShaderRun_NoMemo(id, env) ==
    IF id \notin DOMAIN ShaderRegistry THEN Abort(Unregistered("shader", id))
    ELSE LET shaderInfo == ShaderRegistry[id]
             rawShader == [obj |-> NewObj("shaders", id), bytes |-> OpenAsset(shaderInfo.Path)]
             shader == [ID |-> id, Data |-> rawShader]
         IN  IF env.fail = "read"
             THEN Deferred("shader", shaderInfo.Path, env.close,
                           PathErr("read", "shader", shaderInfo.Path), <<>>, 0)
             ELSE IF env.fail = "decode"
             THEN Deferred("shader", shaderInfo.Path, env.close,
                           PathErr("compile", "shader", shaderInfo.Path), <<>>, 1)
             ELSE Deferred("shader", shaderInfo.Path, env.close, NoErr, <<shader>>, 1)

LoadShaderRun(id, env) ==
    IF id \in DOMAIN shaders THEN Hit(shaders[id])
    ELSE IF id \notin DOMAIN ShaderRegistry THEN Abort(Unregistered("shader", id))
    ELSE LET shaderInfo == ShaderRegistry[id]
             rawShader == [obj |-> NewObj("shaders", id), bytes |-> OpenAsset(shaderInfo.Path)]
             shader == [ID |-> id, Data |-> rawShader]
         IN  IF env.fail = "read"
             THEN Deferred("shader", shaderInfo.Path, env.close,
                           PathErr("read", "shader", shaderInfo.Path), <<>>, 0)
             ELSE IF env.fail = "decode"
             THEN Deferred("shader", shaderInfo.Path, env.close,
                           PathErr("compile", "shader", shaderInfo.Path), <<>>, 1)
             ELSE Deferred("shader", shaderInfo.Path, env.close, NoErr, <<shader>>, 1)

LoadShader(id) ==
    /\ OnlyKind("shader")
    /\ \E env \in EnvsOf(id \notin DOMAIN shaders /\ id \in DOMAIN ShaderRegistry, {"read", "decode"}) :
        LET out == LoadShaderRun(id, env) IN
        /\ shaders' = Stored(shaders, id, out)
        /\ Record("LoadShader", "shader", "shaders", id, out)
        /\ UNCHANGED <<hooks, registries, images, wavs, oggs, customAudio, fonts, raws, callers, other>>

SetShader(id, info) ==
    /\ OnlyKind("shader")
    /\ WithinBound(ShaderRegistry, {id})
    /\ ShaderRegistry' = Set(ShaderRegistry, id, info)
    /\ call' = Call("Set", "shader", id, <<info>>,
                    id \in DOMAIN ShaderRegistry /\ ShaderRegistry[id] # info,
                    [table |-> ""] @@ Done)
    /\ UNCHANGED <<hooks, ImageRegistry, AudioRegistry, FontRegistry, RawRegistry,
                   tables, opens, decodes, callers, other>>

AssignShader(m, order) ==
    /\ OnlyKind("shader")
    /\ WithinBound(ShaderRegistry, DOMAIN m)
    /\ ShaderRegistry' = Assign(ShaderRegistry, m, order)
    /\ call' = Call("Assign", "shader", 0, <<m>>, FALSE, [table |-> ""] @@ Done)
    /\ UNCHANGED <<hooks, ImageRegistry, AudioRegistry, FontRegistry, RawRegistry,
                   tables, opens, decodes, callers, other>>


\* ------------------------------------------------------------------ audio

\* strings.HasSuffix(s, suffix)
HasSuffix(s, suffix) ==
    /\ Len(s) >= Len(suffix)
    /\ SubSeq(s, Len(s) - Len(suffix) + 1, Len(s)) = suffix

\* Mutant of getAudioInfo: an unbound identifier yields the zero AudioInfo.
getAudioInfo_Zero(id) ==
    [ok |-> TRUE,
     info |-> <<IF id \in DOMAIN AudioRegistry THEN AudioRegistry[id]
                ELSE [Path |-> <<>>, Group |-> 0, Volume |-> 0, StreamDecorator |-> "nil"]>>,
     err |-> NoErr]

\* l.AudioRegistry.mapping[id], or the panic of getAudioInfo
getAudioInfo(id) ==
    IF id \in DOMAIN AudioRegistry
    THEN [ok |-> TRUE, info |-> <<AudioRegistry[id]>>, err |-> NoErr]
    ELSE [ok |-> FALSE, info |-> <<>>, err |-> Unregistered("audio", id)]

\* Mutant of createAudioObject: the metadata volume is taken as is.
createAudioObject_Raw(p, id, info) ==
    [ID |-> id, Player |-> p, Volume |-> info.Volume,
     Group |-> info.Group, Duration |-> 0]

\* volume := (info.Volume / 2) + 0.5, in hundredths
createAudioObject(p, id, info) ==
    [ID |-> id, Player |-> p, Volume |-> (info.Volume \div 2) + 50,
     Group |-> info.Group, Duration |-> 0]

\* A decorator applied to a stream. NopDecorator returns its input; LoopOGG
\* asserts a vorbis stream (ok = FALSE: the type assertion panics) and wraps
\* it into an infinite loop.
Decorate(decorator, stream) ==
    IF decorator = "LoopOGG"
    THEN [ok |-> stream.codec = "vorbis", stream |-> [stream EXCEPT !.wrap = "InfiniteLoop"]]
    ELSE [ok |-> TRUE, stream |-> stream]

\* Mutant of maybeWrapAudioStream: with no decorator the stream is looped.
maybeWrapAudioStream_LoopDefault(r, info) ==
    IF info.StreamDecorator # "nil"
    THEN Decorate(info.StreamDecorator, r) @@ [decorated |-> 1]
    ELSE [ok |-> TRUE, stream |-> [r EXCEPT !.wrap = "InfiniteLoop"], decorated |-> 0]

\* The stream handed to the player, and the decorator calls made for it.
maybeWrapAudioStream(r, info) ==
    IF info.StreamDecorator # "nil"
    THEN Decorate(info.StreamDecorator, r) @@ [decorated |-> 1]
    ELSE [ok |-> TRUE, stream |-> r, decorated |-> 0]

\* The stream a decoder yields for the bytes of a path.
Decoded(codec, path) == [codec |-> codec, bytes |-> OpenAsset(path), wrap |-> "none"]

AssertErr == [err |-> "interface conversion", kind |-> "audio", id |-> 0, path |-> <<>>]

PlayerErr == [err |-> "new player", kind |-> "audio", id |-> 0, path |-> <<>>]

\* Mutant of WavPlayer: the player is always built from the bytes in memory.
WavPlayer_Bytes(id, wavInfo, stream) ==
    [obj |-> NewObj("wavs", id), from |-> "bytes", stream |-> stream]

\* The player of a WAV: over the bytes read into memory when the metadata has
\* no decorator, over the decorated stream otherwise.
WavPlayer(id, wavInfo, stream) ==
    IF wavInfo.StreamDecorator = "nil"
    THEN [obj |-> NewObj("wavs", id), from |-> "bytes", stream |-> stream]
    ELSE [obj |-> NewObj("wavs", id), from |-> "stream",
          stream |-> Decorate(wavInfo.StreamDecorator, stream).stream]

\* Mutant of LoadWAVRun: a miss in l.wavs falls back to the custom table.
LoadWAVRun_AnyTable(id, env) ==
    IF id \in DOMAIN wavs THEN Hit(wavs[id]) @@ [table |-> "wavs"]
    ELSE IF id \in DOMAIN customAudio THEN Hit(customAudio[id]) @@ [table |-> "wavs"]
    ELSE IF ~getAudioInfo(id).ok THEN Abort(getAudioInfo(id).err) @@ [table |-> "wavs"]
    ELSE LET wavInfo == getAudioInfo(id).info[1]
             stream == Decoded("wav", wavInfo.Path)
             wrapped == Decorate(wavInfo.StreamDecorator, stream)
             leave(e, res, n) ==
                 [Deferred("wav", wavInfo.Path, env.close, e, res, 1)
                      EXCEPT !.decorated = n] @@ [table |-> "wavs"]
             player == WavPlayer(id, wavInfo, stream)
         IN  IF env.fail = "decode"
             THEN leave(PathErr("decode", "wav", wavInfo.Path), <<>>, 0)
             ELSE IF wavInfo.StreamDecorator = "nil"
             THEN IF env.fail = "read"
                  THEN leave(PathErr("read", "wav", wavInfo.Path), <<>>, 0)
                  ELSE leave(NoErr, <<createAudioObject(player, id, wavInfo)>>, 0)
             ELSE IF ~wrapped.ok THEN leave(AssertErr, <<>>, 1)
             ELSE IF env.fail = "build" THEN leave(PlayerErr, <<>>, 1)
             ELSE leave(NoErr, <<createAudioObject(player, id, wavInfo)>>, 1)

LoadWAVRun(id, env) ==
    IF id \in DOMAIN wavs THEN Hit(wavs[id]) @@ [table |-> "wavs"]
    ELSE IF ~getAudioInfo(id).ok THEN Abort(getAudioInfo(id).err) @@ [table |-> "wavs"]
    ELSE LET wavInfo == getAudioInfo(id).info[1]
             stream == Decoded("wav", wavInfo.Path)
             wrapped == Decorate(wavInfo.StreamDecorator, stream)
             leave(e, res, n) ==
                 [Deferred("wav", wavInfo.Path, env.close, e, res, 1)
                      EXCEPT !.decorated = n] @@ [table |-> "wavs"]
             player == WavPlayer(id, wavInfo, stream)
         IN  IF env.fail = "decode"
             THEN leave(PathErr("decode", "wav", wavInfo.Path), <<>>, 0)
             ELSE IF wavInfo.StreamDecorator = "nil"
             THEN IF env.fail = "read"
                  THEN leave(PathErr("read", "wav", wavInfo.Path), <<>>, 0)
                  ELSE leave(NoErr, <<createAudioObject(player, id, wavInfo)>>, 0)
             ELSE IF ~wrapped.ok THEN leave(AssertErr, <<>>, 1)
             ELSE IF env.fail = "build" THEN leave(PlayerErr, <<>>, 1)
             ELSE leave(NoErr, <<createAudioObject(player, id, wavInfo)>>, 1)

\* The reader opened by LoadOGG is never closed.
LoadOGGRun(id, env) ==
    IF id \in DOMAIN oggs THEN Hit(oggs[id]) @@ [table |-> "oggs"]
    ELSE IF ~getAudioInfo(id).ok THEN Abort(getAudioInfo(id).err) @@ [table |-> "oggs"]
    ELSE LET oggInfo == getAudioInfo(id).info[1]
             oggStream == Decoded("vorbis", oggInfo.Path)
             wrapped == maybeWrapAudioStream(oggStream, oggInfo)
             player == [obj |-> NewObj("oggs", id), from |-> "stream",
                        stream |-> wrapped.stream]
             leave(e, res, n) ==
                 [ret |-> res, err |-> e, store |-> res,
                  opened |-> <<oggInfo.Path>>, closed |-> 0, decoded |-> 1,
                  custom |-> 0, decorated |-> n, table |-> "oggs"]
         IN  IF env.fail = "decode"
             THEN leave(PathErr("decode", "ogg", oggInfo.Path), <<>>, 0)
             ELSE IF ~wrapped.ok THEN leave(AssertErr, <<>>, wrapped.decorated)
             ELSE IF env.fail = "build" THEN leave(PlayerErr, <<>>, wrapped.decorated)
             ELSE leave(NoErr, <<createAudioObject(player, id, oggInfo)>>, wrapped.decorated)

\* What l.CustomAudioLoader(r, info) returns: a stream, or <<>> for nil.
CustomStream(loader, info) ==
    IF loader = "xm" /\ HasSuffix(info.Path, XmExt)
    THEN <<Decoded("xm", info.Path)>> ELSE <<>>

\* Mutant of loadCustomAudio: the nil loader is tested before the table.
loadCustomAudio_NilFirst(id, info, env) ==
    IF CustomAudioLoader = "nil"
    THEN Abort(NoErr) @@ [table |-> "customAudio", declined |-> TRUE]
    ELSE IF id \in DOMAIN customAudio
    THEN Hit(customAudio[id]) @@ [table |-> "customAudio", declined |-> FALSE]
    ELSE LET stream == CustomStream(CustomAudioLoader, info)
             wrapped == maybeWrapAudioStream(stream[1], info)
             player == [obj |-> NewObj("customAudio", id), from |-> "stream",
                        stream |-> wrapped.stream]
             leave(e, res, n, declined) ==
                 [Deferred("custom audio", info.Path, env.close, e, res, 1)
                      EXCEPT !.decorated = n, !.custom = 1]
                 @@ [table |-> "customAudio", declined |-> declined /\ ~env.close]
         IN  IF stream = <<>> THEN leave(NoErr, <<>>, 0, TRUE)
             ELSE IF ~wrapped.ok THEN leave(AssertErr, <<>>, wrapped.decorated, FALSE)
             ELSE IF env.fail = "build" THEN leave(PlayerErr, <<>>, wrapped.decorated, FALSE)
             ELSE leave(NoErr, <<createAudioObject(player, id, info)>>,
                        wrapped.decorated, FALSE)

\* Mutant of loadCustomAudio: the table is not consulted.
loadCustomAudio_NoMemo(id, info, env) ==
    IF CustomAudioLoader = "nil"
    THEN Abort(NoErr) @@ [table |-> "customAudio", declined |-> TRUE]
    ELSE LET stream == CustomStream(CustomAudioLoader, info)
             wrapped == maybeWrapAudioStream(stream[1], info)
             player == [obj |-> NewObj("customAudio", id), from |-> "stream",
                        stream |-> wrapped.stream]
             leave(e, res, n, declined) ==
                 [Deferred("custom audio", info.Path, env.close, e, res, 1)
                      EXCEPT !.decorated = n, !.custom = 1]
                 @@ [table |-> "customAudio", declined |-> declined /\ ~env.close]
         IN  IF stream = <<>> THEN leave(NoErr, <<>>, 0, TRUE)
             ELSE IF ~wrapped.ok THEN leave(AssertErr, <<>>, wrapped.decorated, FALSE)
             ELSE IF env.fail = "build" THEN leave(PlayerErr, <<>>, wrapped.decorated, FALSE)
             ELSE leave(NoErr, <<createAudioObject(player, id, info)>>,
                        wrapped.decorated, FALSE)

\* loadCustomAudio returns (a, ok): ok is FALSE when `declined`.
\* Mutant of loadCustomAudio: the asset is opened before the loader is tested.
loadCustomAudio_OpenFirst(id, info, env) ==
    IF id \in DOMAIN customAudio
    THEN Hit(customAudio[id]) @@ [table |-> "customAudio", declined |-> FALSE]
    ELSE LET stream == CustomStream(CustomAudioLoader, info)
             wrapped == maybeWrapAudioStream(stream[1], info)
             player == [obj |-> NewObj("customAudio", id), from |-> "stream",
                        stream |-> wrapped.stream]
             leave(e, res, n, declined) ==
                 [Deferred("custom audio", info.Path, env.close, e, res, 1)
                      EXCEPT !.decorated = n, !.custom = 1]
                 @@ [table |-> "customAudio", declined |-> declined /\ ~env.close]
         IN  IF CustomAudioLoader = "nil"
             THEN [Deferred("custom audio", info.Path, env.close, NoErr, <<>>, 0)
                       EXCEPT !.custom = 0]
                  @@ [table |-> "customAudio", declined |-> ~env.close]
             ELSE IF stream = <<>> THEN leave(NoErr, <<>>, 0, TRUE)
             ELSE IF ~wrapped.ok THEN leave(AssertErr, <<>>, wrapped.decorated, FALSE)
             ELSE IF env.fail = "build" THEN leave(PlayerErr, <<>>, wrapped.decorated, FALSE)
             ELSE leave(NoErr, <<createAudioObject(player, id, info)>>,
                        wrapped.decorated, FALSE)

loadCustomAudio(id, info, env) ==
    IF id \in DOMAIN customAudio
    THEN Hit(customAudio[id]) @@ [table |-> "customAudio", declined |-> FALSE]
    ELSE IF CustomAudioLoader = "nil"
    THEN Abort(NoErr) @@ [table |-> "customAudio", declined |-> TRUE]
    ELSE LET stream == CustomStream(CustomAudioLoader, info)
             wrapped == maybeWrapAudioStream(stream[1], info)
             player == [obj |-> NewObj("customAudio", id), from |-> "stream",
                        stream |-> wrapped.stream]
             leave(e, res, n, declined) ==
                 [Deferred("custom audio", info.Path, env.close, e, res, 1)
                      EXCEPT !.decorated = n, !.custom = 1]
                 @@ [table |-> "customAudio", declined |-> declined /\ ~env.close]
         IN  IF stream = <<>> THEN leave(NoErr, <<>>, 0, TRUE)
             ELSE IF ~wrapped.ok THEN leave(AssertErr, <<>>, wrapped.decorated, FALSE)
             ELSE IF env.fail = "build" THEN leave(PlayerErr, <<>>, wrapped.decorated, FALSE)
             ELSE leave(NoErr, <<createAudioObject(player, id, info)>>,
                        wrapped.decorated, FALSE)

UnrecognizedErr(path) == PathErr("unrecognized format", "audio", path)

\* Mutant of LoadAudioRun: the two suffixes lead to each other's loader.
LoadAudioRun_Swapped(id, env) ==
    IF ~getAudioInfo(id).ok THEN Abort(getAudioInfo(id).err) @@ [table |-> "customAudio"]
    ELSE LET audioInfo == getAudioInfo(id).info[1]
             custom == loadCustomAudio(id, audioInfo, env)
             out == [x \in DOMAIN custom \ {"declined"} |-> custom[x]]
         IN  IF HasSuffix(audioInfo.Path, OggExt) THEN LoadWAVRun(id, env)
             ELSE IF HasSuffix(audioInfo.Path, WavExt) THEN LoadOGGRun(id, env)
             ELSE IF DOMAIN customAudio # {} \/ CustomAudioLoader # "nil"
             THEN IF custom.declined
                  THEN [out EXCEPT !.err = UnrecognizedErr(audioInfo.Path)]
                  ELSE out
             ELSE Abort(UnrecognizedErr(audioInfo.Path)) @@ [table |-> "customAudio"]

\* Mutant of LoadAudioRun: the ok of loadCustomAudio is ignored.
LoadAudioRun_IgnoreOk(id, env) ==
    IF ~getAudioInfo(id).ok THEN Abort(getAudioInfo(id).err) @@ [table |-> "customAudio"]
    ELSE LET audioInfo == getAudioInfo(id).info[1]
             custom == loadCustomAudio(id, audioInfo, env)
             out == [x \in DOMAIN custom \ {"declined"} |-> custom[x]]
         IN  IF HasSuffix(audioInfo.Path, OggExt) THEN LoadOGGRun(id, env)
             ELSE IF HasSuffix(audioInfo.Path, WavExt) THEN LoadWAVRun(id, env)
             ELSE IF DOMAIN customAudio # {} \/ CustomAudioLoader # "nil"
             THEN out
             ELSE Abort(UnrecognizedErr(audioInfo.Path)) @@ [table |-> "customAudio"]

LoadAudioRun(id, env) ==
    IF ~getAudioInfo(id).ok THEN Abort(getAudioInfo(id).err) @@ [table |-> "customAudio"]
    ELSE LET audioInfo == getAudioInfo(id).info[1]
             custom == loadCustomAudio(id, audioInfo, env)
             out == [x \in DOMAIN custom \ {"declined"} |-> custom[x]]
         IN  IF HasSuffix(audioInfo.Path, OggExt) THEN LoadOGGRun(id, env)
             ELSE IF HasSuffix(audioInfo.Path, WavExt) THEN LoadWAVRun(id, env)
             ELSE IF DOMAIN customAudio # {} \/ CustomAudioLoader # "nil"
             THEN IF custom.declined
                  THEN [out EXCEPT !.err = UnrecognizedErr(audioInfo.Path)]
                  ELSE out
             ELSE Abort(UnrecognizedErr(audioInfo.Path)) @@ [table |-> "customAudio"]

\* The stages at which the environment can fail an audio load.
AudioStages == {"decode", "read", "build"}

\* The three audio tables after a call whose outcome names its table.
AudioStored(id, out) ==
    /\ wavs' = IF out.table = "wavs" THEN Stored(wavs, id, out) ELSE wavs
    /\ oggs' = IF out.table = "oggs" THEN Stored(oggs, id, out) ELSE oggs
    /\ customAudio' = IF out.table = "customAudio" THEN Stored(customAudio, id, out)
                      ELSE customAudio

LoadWAV(id) ==
    /\ OnlyKind("audio")
    /\ \E env \in EnvsOf(id \notin DOMAIN wavs /\ id \in DOMAIN AudioRegistry, AudioStages) :
        LET out == LoadWAVRun(id, env) IN
        /\ AudioStored(id, out)
        /\ Record("LoadWAV", "audio", out.table, id, out)
        /\ UNCHANGED <<hooks, registries, images, shaders, fonts, raws, callers, other>>

LoadOGG(id) ==
    /\ OnlyKind("audio")
    /\ \E env \in EnvsOf(id \notin DOMAIN oggs /\ id \in DOMAIN AudioRegistry, AudioStages) :
        LET out == LoadOGGRun(id, env) IN
        /\ AudioStored(id, out)
        /\ Record("LoadOGG", "audio", out.table, id, out)
        /\ UNCHANGED <<hooks, registries, images, shaders, fonts, raws, callers, other>>

LoadAudio(id) ==
    /\ OnlyKind("audio")
    /\ \E env \in EnvsOf(id \in DOMAIN AudioRegistry, AudioStages) :
        LET out == LoadAudioRun(id, env) IN
        /\ AudioStored(id, out)
        /\ Record("LoadAudio", "audio", out.table, id, out)
        /\ UNCHANGED <<hooks, registries, images, shaders, fonts, raws, callers, other>>

SetAudio(id, info) ==
    /\ OnlyKind("audio")
    /\ WithinBound(AudioRegistry, {id})
    /\ AudioRegistry' = Set(AudioRegistry, id, info)
    /\ call' = Call("Set", "audio", id, <<info>>,
                    id \in DOMAIN AudioRegistry /\ AudioRegistry[id] # info,
                    [table |-> ""] @@ Done)
    /\ UNCHANGED <<hooks, ImageRegistry, FontRegistry, ShaderRegistry, RawRegistry,
                   tables, opens, decodes, callers, other>>

AssignAudio(m, order) ==
    /\ OnlyKind("audio")
    /\ WithinBound(AudioRegistry, DOMAIN m)
    /\ AudioRegistry' = Assign(AudioRegistry, m, order)
    /\ call' = Call("Assign", "audio", 0, <<m>>, FALSE, [table |-> ""] @@ Done)
    /\ UNCHANGED <<hooks, ImageRegistry, FontRegistry, ShaderRegistry, RawRegistry,
                   tables, opens, decodes, callers, other>>

\* l.AudioRegistry.mapping[id]: the zero value when id is unbound
GetAudioInfoRun(id) ==
    IF id \in DOMAIN AudioRegistry THEN AudioRegistry[id]
    ELSE [Path |-> <<>>, Group |-> 0, Volume |-> 0, StreamDecorator |-> "nil"]

GetAudioInfo(id) ==
    /\ OnlyKind("audio")
    /\ call' = Call("GetInfo", "audio", id, <<>>, FALSE,
                    [table |-> ""] @@ Hit(GetAudioInfoRun(id)))
    /\ UNCHANGED <<hooks, registries, tables, opens, decodes, callers, other>>

\* ------------------------------------------------------------------ hooks

\* Mutant of SetOpenAssetFunc: the hook is a package-level variable, set for
\* every Loader.
SetOpenAssetFunc_Global(f) ==
    /\ OpenAssetFunc' = f
    /\ other' = [other EXCEPT !.OpenAssetFunc = f]
    /\ call' = Call("SetOpenAssetFunc", "", 0, <<f>>, FALSE, [table |-> ""] @@ Done)
    /\ UNCHANGED <<CustomAudioLoader, registries, tables, opens, decodes, callers>>

\* l.OpenAssetFunc = f
SetOpenAssetFunc(f) ==
    /\ OpenAssetFunc' = f
    /\ call' = Call("SetOpenAssetFunc", "", 0, <<f>>, FALSE, [table |-> ""] @@ Done)
    /\ UNCHANGED <<CustomAudioLoader, registries, tables, opens, decodes, callers, other>>

\* l.CustomAudioLoader = f
SetCustomAudioLoader(f) ==
    /\ CustomAudioLoader' = f
    /\ call' = Call("SetCustomAudioLoader", "", 0, <<f>>, FALSE, [table |-> ""] @@ Done)
    /\ UNCHANGED <<OpenAssetFunc, registries, tables, opens, decodes, callers, other>>

\* ------------------------------------------------------------------ specs

\* The fields of a Loader NewLoader has just returned (with the asset opener
\* the client gives every Loader), and its history.
NewLoaderFields ==
    [OpenAssetFunc |-> "fsA", CustomAudioLoader |-> "nil",
     ImageRegistry |-> EmptyMap, AudioRegistry |-> EmptyMap, FontRegistry |-> EmptyMap,
     ShaderRegistry |-> EmptyMap, RawRegistry |-> EmptyMap,
     images |-> EmptyMap, shaders |-> EmptyMap, wavs |-> EmptyMap, oggs |-> EmptyMap,
     customAudio |-> EmptyMap, fonts |-> EmptyMap, raws |-> EmptyMap,
     opens |-> [t \in Tables |-> [i \in IDs |-> 0]],
     decodes |-> [t \in Tables |-> [i \in IDs |-> 0]]]

Init ==
    /\ OpenAssetFunc = "fsA"
    /\ CustomAudioLoader = "nil"
    /\ ImageRegistry = EmptyMap /\ AudioRegistry = EmptyMap /\ FontRegistry = EmptyMap
    /\ ShaderRegistry = EmptyMap /\ RawRegistry = EmptyMap
    /\ images = EmptyMap /\ shaders = EmptyMap /\ wavs = EmptyMap /\ oggs = EmptyMap
    /\ customAudio = EmptyMap /\ fonts = EmptyMap /\ raws = EmptyMap
    /\ opens = [t \in Tables |-> [i \in IDs |-> 0]]
    /\ decodes = [t \in Tables |-> [i \in IDs |-> 0]]
    /\ call = Call("NewLoader", "", 0, <<>>, FALSE, [table |-> ""] @@ Done)
    /\ other = NewLoaderFields
    /\ callers = [c \in 1..NumCallers |-> Idle]

Next ==
    \/ \E id \in IDs, info \in RawInfos : SetRaw(id, info)
    \/ \E id \in IDs, info \in ImageInfos : SetImage(id, info)
    \/ \E id \in IDs, info \in FontInfos : SetFont(id, info)
    \/ \E id \in IDs, info \in ShaderInfos : SetShader(id, info)
    \/ \E id \in IDs, info \in AudioInfos : SetAudio(id, info)
    \/ \E b \in RawBatches : AssignRaw(b.m, b.order)
    \/ \E b \in ImageBatches : AssignImage(b.m, b.order)
    \/ \E b \in FontBatches : AssignFont(b.m, b.order)
    \/ \E b \in ShaderBatches : AssignShader(b.m, b.order)
    \/ \E b \in AudioBatches : AssignAudio(b.m, b.order)
    \/ \E id \in IDs : LoadRaw(id)
    \/ \E id \in IDs : LoadImage(id)
    \/ \E id \in IDs : LoadFont(id)
    \/ \E id \in IDs : LoadShader(id)
    \/ \E id \in IDs : LoadWAV(id)
    \/ \E id \in IDs : LoadOGG(id)
    \/ \E id \in IDs : LoadAudio(id)
    \/ \E id \in IDs : GetRawInfo(id)
    \/ \E id \in IDs : GetImageInfo(id)
    \/ \E id \in IDs : GetFontInfo(id)
    \/ \E id \in IDs : GetAudioInfo(id)
    \/ \E f \in AssetFuncs : SetOpenAssetFunc(f)
    \/ \E f \in CustomLoaders : SetCustomAudioLoader(f)

Spec == Init /\ [][Next]_vars

\* ------------------------------------------------- interleaved callers
\* LoadRaw and LoadWAV called from several goroutines of one Loader. The code
\* takes no lock, so the statements of the calls interleave: the table lookup
\* with the registry lookup, the open, the decode that builds the resource,
\* and the store with the return (and the deferred Close).

Begin(c, op, id) ==
    /\ callers[c].pc = "idle"
    /\ callers' = [callers EXCEPT ![c] =
           [pc |-> "lookup", op |-> op, id |-> id, info |-> <<>>, stream |-> <<>>,
            res |-> <<>>, ret |-> <<>>]]
    /\ UNCHANGED <<hooks, registries, tables, history, other>>

CallerTable(c) == IF callers[c].op = "LoadRaw" THEN "raws" ELSE "wavs"

CallerKind(c) == IF callers[c].op = "LoadRaw" THEN "raw" ELSE "audio"

\* a, ok := l.<table>[id]; on a miss, the registry lookup
Lookup(c) ==
    LET me == callers[c]
        table == IF me.op = "LoadRaw" THEN raws ELSE wavs
        registry == IF me.op = "LoadRaw" THEN RawRegistry ELSE AudioRegistry
    IN  /\ me.pc = "lookup"
        /\ callers' = [callers EXCEPT ![c] =
               IF me.id \in DOMAIN table
               THEN [me EXCEPT !.pc = "done", !.ret = <<table[me.id]>>]
               ELSE IF me.id \notin DOMAIN registry
               THEN [me EXCEPT !.pc = "panicked"]
               ELSE [me EXCEPT !.pc = "open", !.info = <<registry[me.id]>>]]
        /\ UNCHANGED <<hooks, registries, tables, history, other>>

\* r := l.OpenAssetFunc(info.Path)
Open(c) ==
    LET me == callers[c] IN
    /\ me.pc = "open"
    /\ callers' = [callers EXCEPT ![c] =
           [me EXCEPT !.pc = "decode", !.stream = <<OpenAsset(me.info[1].Path)>>]]
    /\ opens' = Count(opens, CallerTable(c), me.id, 1)
    /\ UNCHANGED <<hooks, registries, tables, decodes, call, other>>

\* io.ReadAll(r), or wav.DecodeWithoutResampling(r) and the player: the
\* resource is built, unless the reader or the decoder fails
Decode(c) ==
    LET me == callers[c]
        info == me.info[1]
        res == IF me.op = "LoadRaw" THEN NewRaw(me.id, me.stream[1])
               ELSE createAudioObject(
                        WavPlayer(me.id, info, Decoded("wav", info.Path)), me.id, info)
        asserted == me.op = "LoadRaw" \/ Decorate(info.StreamDecorator, res.Player.stream).ok
    IN  /\ me.pc = "decode"
        /\ \E fails \in BOOLEAN :
               callers' = [callers EXCEPT ![c] =
                   IF fails \/ ~asserted THEN [me EXCEPT !.pc = "panicked"]
                   ELSE [me EXCEPT !.pc = "store", !.res = <<res>>]]
        /\ decodes' = Count(decodes, CallerTable(c), me.id, 1)
        /\ UNCHANGED <<hooks, registries, tables, opens, call, other>>

\* l.<table>[id] = a; return a
Store(c) ==
    LET me == callers[c] IN
    /\ me.pc = "store"
    /\ IF me.op = "LoadRaw"
       THEN raws' = Set(raws, me.id, me.res[1]) /\ wavs' = wavs
       ELSE wavs' = Set(wavs, me.id, me.res[1]) /\ raws' = raws
    /\ callers' = [callers EXCEPT ![c] = [me EXCEPT !.pc = "done", !.ret = me.res]]
    /\ UNCHANGED <<hooks, registries, images, shaders, oggs, customAudio, fonts, history, other>>

\* Two goroutines inside the same map, one of them writing: the Go runtime
\* may detect it and end the process ("concurrent map writes", "concurrent
\* map read and map write"), or not.
Throw(c) ==
    /\ callers[c].pc = "store"
    /\ \E d \in DOMAIN callers \ {c} :
           /\ callers[d].pc \in {"lookup", "store"}
           /\ CallerTable(d) = CallerTable(c)
    /\ callers' = [d \in DOMAIN callers |-> [pc |-> "crashed"]]
    /\ UNCHANGED <<hooks, registries, tables, history, other>>

\* The metadata is bound before the goroutines start.
Bind ==
    /\ \A c \in DOMAIN callers : callers[c].pc = "idle"
    /\ \/ \E id \in IDs, info \in RawInfos : SetRaw(id, info)
       \/ \E id \in IDs, info \in AudioInfos : SetAudio(id, info)

NextConc ==
    \/ Bind
    \/ \E c \in DOMAIN callers, op \in {"LoadRaw", "LoadWAV"}, id \in IDs : Begin(c, op, id)
    \/ \E c \in DOMAIN callers : Lookup(c)
    \/ \E c \in DOMAIN callers : Open(c)
    \/ \E c \in DOMAIN callers : Decode(c)
    \/ \E c \in DOMAIN callers : Store(c)
    \/ \E c \in DOMAIN callers : Throw(c)

SpecConc == Init /\ [][NextConc]_vars


\* ------------------------------------------------------ the registry alone
\* Set and Assign of one registry (the audio one) over all identifiers, with
\* no Load in between.

RegistrySet(id, info) ==
    /\ AudioRegistry' = Set(AudioRegistry, id, info)
    /\ call' = Call("Set", "audio", id, <<info>>,
                    id \in DOMAIN AudioRegistry /\ AudioRegistry[id] # info,
                    [table |-> ""] @@ Done)
    /\ UNCHANGED <<hooks, ImageRegistry, FontRegistry, ShaderRegistry, RawRegistry,
                   tables, opens, decodes, callers, other>>

RegistryAssign(m, order) ==
    /\ AudioRegistry' = Assign(AudioRegistry, m, order)
    /\ call' = Call("Assign", "audio", 0, <<m>>, FALSE, [table |-> ""] @@ Done)
    /\ UNCHANGED <<hooks, ImageRegistry, FontRegistry, ShaderRegistry, RawRegistry,
                   tables, opens, decodes, callers, other>>

NextRegistry ==
    \/ \E id \in IDs, info \in AudioInfos : RegistrySet(id, info)
    \/ \E b \in AudioBatches : RegistryAssign(b.m, b.order)

SpecRegistry == Init /\ [][NextRegistry]_vars

\* ------------------------------------------------------------ two Loaders
\* A client with two Loaders, each made by NewLoader. The variables of the
\* Loader hold the fields of the Loader the client is calling and `other`
\* those of its second Loader; Switch is the client turning to the second one.

LoaderFields ==
    [OpenAssetFunc |-> OpenAssetFunc, CustomAudioLoader |-> CustomAudioLoader,
     ImageRegistry |-> ImageRegistry, AudioRegistry |-> AudioRegistry,
     FontRegistry |-> FontRegistry, ShaderRegistry |-> ShaderRegistry,
     RawRegistry |-> RawRegistry,
     images |-> images, shaders |-> shaders, wavs |-> wavs, oggs |-> oggs,
     customAudio |-> customAudio, fonts |-> fonts, raws |-> raws,
     opens |-> opens, decodes |-> decodes]

Switch ==
    /\ other' = LoaderFields
    /\ OpenAssetFunc' = other.OpenAssetFunc /\ CustomAudioLoader' = other.CustomAudioLoader
    /\ ImageRegistry' = other.ImageRegistry /\ AudioRegistry' = other.AudioRegistry
    /\ FontRegistry' = other.FontRegistry /\ ShaderRegistry' = other.ShaderRegistry
    /\ RawRegistry' = other.RawRegistry
    /\ images' = other.images /\ shaders' = other.shaders /\ wavs' = other.wavs
    /\ oggs' = other.oggs /\ customAudio' = other.customAudio /\ fonts' = other.fonts
    /\ raws' = other.raws
    /\ opens' = other.opens /\ decodes' = other.decodes
    /\ call' = Call("Switch", "", 0, <<>>, FALSE, [table |-> ""] @@ Done)
    /\ UNCHANGED callers

NextTwo ==
    \/ \E id \in IDs, info \in RawInfos : SetRaw(id, info)
    \/ \E b \in RawBatches : AssignRaw(b.m, b.order)
    \/ \E id \in IDs : LoadRaw(id)
    \/ \E f \in AssetFuncs : SetOpenAssetFunc(f)
    \/ \E f \in CustomLoaders : SetCustomAudioLoader(f)
    \/ Switch

SpecTwo == Init /\ [][NextTwo]_vars

\* ---------------------------------------------------------------------
\* A client that works with two kinds at once (raw and image) and binds
\* every identifier: the same integers are keys of both kinds.

\* l.RawRegistry.Set(id, info)
FrameSetRaw(id, info) ==
    /\ RawRegistry' = Set(RawRegistry, id, info)
    /\ call' = Call("Set", "raw", id, <<info>>,
                    id \in DOMAIN RawRegistry /\ RawRegistry[id] # info,
                    [table |-> ""] @@ Done)
    /\ UNCHANGED <<hooks, ImageRegistry, AudioRegistry, FontRegistry, ShaderRegistry,
                   tables, opens, decodes, callers, other>>

\* l.ImageRegistry.Set(id, info)
FrameSetImage(id, info) ==
    /\ ImageRegistry' = Set(ImageRegistry, id, info)
    /\ call' = Call("Set", "image", id, <<info>>,
                    id \in DOMAIN ImageRegistry /\ ImageRegistry[id] # info,
                    [table |-> ""] @@ Done)
    /\ UNCHANGED <<hooks, AudioRegistry, FontRegistry, ShaderRegistry, RawRegistry,
                   tables, opens, decodes, callers, other>>

\* l.RawRegistry.Assign(m)
FrameAssignRaw(m, order) ==
    /\ RawRegistry' = Assign(RawRegistry, m, order)
    /\ call' = Call("Assign", "raw", 0, <<m>>, FALSE, [table |-> ""] @@ Done)
    /\ UNCHANGED <<hooks, ImageRegistry, AudioRegistry, FontRegistry, ShaderRegistry,
                   tables, opens, decodes, callers, other>>

\* l.ImageRegistry.Assign(m)
FrameAssignImage(m, order) ==
    /\ ImageRegistry' = Assign(ImageRegistry, m, order)
    /\ call' = Call("Assign", "image", 0, <<m>>, FALSE, [table |-> ""] @@ Done)
    /\ UNCHANGED <<hooks, AudioRegistry, FontRegistry, ShaderRegistry, RawRegistry,
                   tables, opens, decodes, callers, other>>

\* l.LoadRaw(id)
FrameLoadRaw(id) ==
    \E env \in EnvsOf(id \notin DOMAIN raws /\ id \in DOMAIN RawRegistry, {"read"}) :
        LET out == LoadRawRun(id, env) IN
        /\ raws' = Stored(raws, id, out)
        /\ Record("LoadRaw", "raw", "raws", id, out)
        /\ UNCHANGED <<hooks, registries, images, shaders, wavs, oggs, customAudio, fonts, callers, other>>

\* Mutant of FrameLoadImage: one table keyed by the integer for both kinds.
FrameLoadImage_SharedKeys(id) ==
    \E env \in EnvsOf(id \notin DOMAIN images /\ id \in DOMAIN ImageRegistry, {"decode"}) :
        LET out == LoadImageRun(id, env) IN
        /\ images' = Stored(images, id, out)
        /\ raws' = IF out.store = <<>> THEN raws ELSE [i \in DOMAIN raws \ {id} |-> raws[i]]
        /\ Record("LoadImage", "image", "images", id, out)
        /\ UNCHANGED <<hooks, registries, shaders, wavs, oggs, customAudio, fonts, callers, other>>

\* l.LoadImage(id)
FrameLoadImage(id) ==
    \E env \in EnvsOf(id \notin DOMAIN images /\ id \in DOMAIN ImageRegistry, {"decode"}) :
        LET out == LoadImageRun(id, env) IN
        /\ images' = Stored(images, id, out)
        /\ Record("LoadImage", "image", "images", id, out)
        /\ UNCHANGED <<hooks, registries, shaders, wavs, oggs, customAudio, fonts, raws, callers, other>>

NextFrame ==
    \/ \E id \in IDs, info \in RawInfos : FrameSetRaw(id, info)
    \/ \E id \in IDs, info \in ImageInfos : FrameSetImage(id, info)
    \/ \E b \in RawBatches : FrameAssignRaw(b.m, b.order)
    \/ \E b \in ImageBatches : FrameAssignImage(b.m, b.order)
    \/ \E id \in IDs : FrameLoadRaw(id)
    \/ \E id \in IDs : FrameLoadImage(id)

SpecFrame == Init /\ [][NextFrame]_vars

\* ---------------------------------------------------------------------
\* A client that binds every audio identifier and loads through LoadAudio:
\* one identifier can be in the custom table while another is not.

\* l.AudioRegistry.Set(id, info)
CustomSetAudio(id, info) ==
    /\ AudioRegistry' = Set(AudioRegistry, id, info)
    /\ call' = Call("Set", "audio", id, <<info>>,
                    id \in DOMAIN AudioRegistry /\ AudioRegistry[id] # info,
                    [table |-> ""] @@ Done)
    /\ UNCHANGED <<hooks, ImageRegistry, FontRegistry, ShaderRegistry, RawRegistry,
                   tables, opens, decodes, callers, other>>

\* l.LoadAudio(id)
CustomLoadAudio(id) ==
    \E env \in EnvsOf(id \in DOMAIN AudioRegistry, AudioStages) :
        LET out == LoadAudioRun(id, env) IN
        /\ AudioStored(id, out)
        /\ Record("LoadAudio", "audio", out.table, id, out)
        /\ UNCHANGED <<hooks, registries, images, shaders, fonts, raws, callers, other>>

NextCustom ==
    \/ \E id \in IDs, info \in AudioInfos : CustomSetAudio(id, info)
    \/ \E id \in IDs : CustomLoadAudio(id)
    \/ \E f \in CustomLoaders : SetCustomAudioLoader(f)

SpecCustom == Init /\ [][NextCustom]_vars


\* ----------------------------------------------------------------- claims

Table(t) ==
    CASE t = "images" -> images
      [] t = "shaders" -> shaders
      [] t = "wavs" -> wavs
      [] t = "oggs" -> oggs
      [] t = "customAudio" -> customAudio
      [] t = "fonts" -> fonts
      [] t = "raws" -> raws

AudioTables == {"wavs", "oggs", "customAudio"}

LoadOps == {"LoadRaw", "LoadImage", "LoadFont", "LoadShader", "LoadWAV", "LoadOGG", "LoadAudio"}

IsLoad(c) == c.op \in LoadOps

\* C1 (as amended): memoization. Once an identifier is in a table, no later
\* step opens the asset or runs the decoder for it again, and every later
\* successful Load of it returns the stored object; the call that stored it
\* opened the asset once and ran the decoder once.
C1_MemoizedOnce ==
    [][\A t \in Tables, id \in IDs :
          /\ id \in DOMAIN Table(t) =>
                /\ opens'[t][id] = opens[t][id]
                /\ decodes'[t][id] = decodes[t][id]
                /\ (IsLoad(call') /\ call'.table = t /\ call'.id = id /\ call'.ret # <<>>)
                       => call'.ret = <<Table(t)[id]>>
          /\ (id \notin DOMAIN Table(t) /\ id \in DOMAIN Table(t)') =>
                /\ IsLoad(call') /\ call'.table = t /\ call'.id = id
                /\ Len(call'.opened) = 1 /\ call'.decoded = 1
                /\ opens'[t][id] = opens[t][id] + 1
                /\ decodes'[t][id] = decodes[t][id] + 1
                /\ call'.store = <<Table(t)'[id]>>]_vars

\* C1 witness: a Load returns the stored object without opening anything,
\* for an identifier whose first load had failed (two opens were made).
C1_Witness ==
    \E t \in Tables, id \in IDs :
        /\ id \in DOMAIN Table(t) /\ opens[t][id] > 1
        /\ IsLoad(call) /\ call.table = t /\ call.id = id
        /\ call.opened = <<>> /\ call.ret = <<Table(t)[id]>>

\* C1 as stated: for an identifier that was loaded, the opener and the
\* decoder were each invoked exactly once over the whole sequence, and a
\* successful Load returns the stored object.
C1_ExactlyOnce ==
    \A t \in Tables, id \in IDs :
        id \in DOMAIN Table(t) =>
            /\ opens[t][id] = 1 /\ decodes[t][id] = 1
            /\ (IsLoad(call) /\ call.table = t /\ call.id = id /\ call.ret # <<>>)
                   => call.ret = <<Table(t)[id]>>

\* C2 as stated: when the callers have all returned from a Load of the same
\* identifier of one Loader, one decode was made and all returned the
\* identical object.
C2_OneDecode ==
    \A c, d \in DOMAIN callers :
        (callers[c].pc = "done" /\ callers[d].pc = "done"
         /\ callers[c].op = callers[d].op /\ callers[c].id = callers[d].id)
        => /\ decodes[CallerTable(c)][callers[c].id] = 1
           /\ callers[c].ret = callers[d].ret

\* C3: a Load of an identifier with no metadata in its kind's registry fails
\* with the unregistered error naming the kind and the identifier, returns
\* nothing and opens no asset.
C3_UnregisteredFails ==
    (IsLoad(call) /\ call.id \notin DOMAIN Registry(call.kind))
    => /\ call.err = Unregistered(call.kind, call.id)
       /\ call.opened = <<>> /\ call.ret = <<>> /\ call.store = <<>>

\* C3 witness: such a Load has just failed, while another identifier of the
\* kind is bound.
C3_Witness ==
    /\ IsLoad(call) /\ call.id \notin DOMAIN Registry(call.kind)
    /\ DOMAIN Registry(call.kind) # {}
    /\ call.err.err = "unregistered"

\* What a resource of a table is when built for `id` from metadata m alone.
BuiltFrom(t, id, m, res) ==
    LET bytes == [fs |-> OpenAssetFunc, path |-> m.Path] IN
    /\ res.ID = id
    /\ t = "raws" => res.Data.bytes = bytes
    /\ t = "shaders" => res.Data.bytes = bytes
    /\ t = "images" =>
          /\ res.Data.bytes = bytes
          /\ res.DefaultFrameWidth = m.FrameWidth
          /\ res.DefaultFrameHeight = m.FrameHeight
    /\ t = "fonts" =>
          /\ res.Face.bytes = bytes /\ res.Face.Size = m.Size
          /\ res.Face.LineHeight = (IF m.LineSpacing \in {0, 10} THEN 10 ELSE m.LineSpacing)
    /\ t \in AudioTables =>
          /\ res.Player.stream.bytes = bytes
          /\ res.Volume * 2 = m.Volume + 100
          /\ res.Group = m.Group
          /\ res.Player.stream.wrap =
                 (IF m.StreamDecorator = "LoopOGG" THEN "InfiniteLoop" ELSE "none")
          /\ (res.Player.from = "bytes") = (t = "wavs" /\ m.StreamDecorator = "nil")

\* C4: re-registration before load. A Set leaves the identifier bound to
\* exactly the metadata it was given, whatever was bound before; a Load that
\* opens an asset opens the path of the metadata now bound, and the resource
\* it stores is built from that metadata alone.
C4_LastSetWins ==
    /\ call.op = "Set" => Registry(call.kind)[call.id] = call.arg[1]
    /\ (IsLoad(call) /\ call.opened # <<>>) =>
          LET m == Registry(call.kind)[call.id] IN
          /\ call.opened = <<m.Path>>
          /\ call.store # <<>> => BuiltFrom(call.table, call.id, m, call.store[1])

\* C4 witness: the first Load of an identifier has stored its resource right
\* after a Set replaced the identifier's metadata by different metadata.
C4_Witness ==
    /\ IsLoad(call) /\ call.replaced /\ call.store # <<>>
    /\ opens[call.table][call.id] = 1

\* The kind whose Load methods fill a table.
TableKind(t) ==
    CASE t = "images" -> "image"
      [] t = "shaders" -> "shader"
      [] t = "fonts" -> "font"
      [] t = "raws" -> "raw"
      [] t \in AudioTables -> "audio"

\* C5 as stated: once an identifier has a memoized resource of a kind, a
\* LoadRaw, LoadImage, LoadFont, LoadShader or LoadAudio of it that follows a
\* Set which changed its metadata returns that resource and neither opens an
\* asset nor decodes.
C5_SetAfterLoadHasNoEffect ==
    [][\A t \in Tables :
          (/\ call'.op \in {"LoadRaw", "LoadImage", "LoadFont", "LoadShader", "LoadAudio"}
           /\ call'.replaced
           /\ TableKind(t) = call'.kind
           /\ call'.id \in DOMAIN Table(t))
          => /\ call'.ret = <<Table(t)[call'.id]>>
             /\ call'.opened = <<>> /\ call'.decoded = 0]_vars

\* C6 as stated: at most one of the three audio tables holds an entry for an
\* AudioID.
C6_OneAudioPerID ==
    \A id \in IDs : Cardinality({t \in AudioTables : id \in DOMAIN Table(t)}) <= 1

\* C7: no eviction and immutability. No step removes or changes an entry of a
\* memoization table, and no step unbinds an identifier of a registry.
C7_NoEviction ==
    [][/\ \A t \in Tables : \A id \in DOMAIN Table(t) :
              id \in DOMAIN Table(t)' /\ Table(t)'[id] = Table(t)[id]
       /\ \A k \in Kinds : DOMAIN Registry(k) \subseteq DOMAIN Registry(k)']_vars

\* C7 witness: a Set has replaced the metadata of an identifier whose
\* resource is memoized.
C7_Witness ==
    /\ call.op = "Set" /\ call.replaced
    /\ \E t \in Tables : call.id \in DOMAIN Table(t)

\* C8 as stated: every stream a Load obtained from the asset opener has been
\* closed exactly once when the call returns or fails.
C8_OpenClosePaired ==
    IsLoad(call) => call.closed = Len(call.opened)

\* The outcome LoadAudio has when it does what `run` does.
SameAs(id, out) ==
    /\ call'.ret = out.ret /\ call'.err = out.err /\ call'.store = out.store
    /\ call'.opened = out.opened /\ call'.closed = out.closed
    /\ call'.decoded = out.decoded /\ call'.decorated = out.decorated
    /\ call'.custom = 0 /\ call'.table = out.table
    /\ wavs' = (IF out.table = "wavs" THEN Stored(wavs, id, out) ELSE wavs)
    /\ oggs' = (IF out.table = "oggs" THEN Stored(oggs, id, out) ELSE oggs)
    /\ customAudio' = customAudio

\* C9: audio dispatch. A LoadAudio of a bound identifier whose path ends in
\* ".ogg" has the result and the effect LoadOGG has in the same state, for
\* ".wav" those of LoadWAV, and it calls the CustomAudioLoader only when the
\* path has neither suffix.
C9_AudioDispatch ==
    [][(call'.op = "LoadAudio" /\ call'.id \in DOMAIN AudioRegistry) =>
          LET id == call'.id
              path == AudioRegistry[id].Path
          IN  /\ HasSuffix(path, OggExt) =>
                     \E env \in Envs(AudioStages) : SameAs(id, LoadOGGRun(id, env))
              /\ (~HasSuffix(path, OggExt) /\ HasSuffix(path, WavExt)) =>
                     \E env \in Envs(AudioStages) : SameAs(id, LoadWAVRun(id, env))
              /\ call'.custom > 0 =>
                     ~HasSuffix(path, OggExt) /\ ~HasSuffix(path, WavExt)]_vars

\* C9 witness: with a CustomAudioLoader installed, LoadAudio has loaded an
\* ".ogg" through the OGG table without calling it.
C9_Witness ==
    /\ call.op = "LoadAudio" /\ call.table = "oggs" /\ call.store # <<>>
    /\ call.custom = 0 /\ CustomAudioLoader # "nil"

\* The case of C10: LoadAudio of a bound identifier whose path has neither
\* suffix, with no custom resource cached for it, and no CustomAudioLoader
\* installed or one that returns nil for it.
C10_Case ==
    /\ call'.op = "LoadAudio" /\ call'.id \in DOMAIN AudioRegistry
    /\ ~HasSuffix(AudioRegistry[call'.id].Path, OggExt)
    /\ ~HasSuffix(AudioRegistry[call'.id].Path, WavExt)
    /\ call'.id \notin DOMAIN customAudio
    /\ CustomStream(CustomAudioLoader, AudioRegistry[call'.id]) = <<>>

\* C10 (as amended): in that case LoadAudio stores nothing in any audio table
\* and fails with the unrecognized-format error naming the path, or, when the
\* Close of the stream it gave to the declining loader fails, with the error
\* of that Close.
C10_Unrecognized ==
    [][C10_Case =>
          LET path == AudioRegistry[call'.id].Path IN
          /\ \/ call'.err = UnrecognizedErr(path)
             \/ /\ call'.opened = <<path>> /\ call'.custom = 1
                /\ call'.err = PathErr("closing", "custom audio", path)
          /\ CustomAudioLoader = "nil" => call'.err = UnrecognizedErr(path)
          /\ call'.ret = <<>>
          /\ wavs' = wavs /\ oggs' = oggs /\ customAudio' = customAudio]_vars

\* C10 witness: the installed loader has declined and the Close failed.
C10_Witness ==
    /\ call.op = "LoadAudio" /\ call.table = "customAudio" /\ call.custom = 1
    /\ call.err.err = "closing" /\ call.store = <<>>
    /\ call.id \notin DOMAIN customAudio

\* C10 as stated: in that case LoadAudio fails with the unrecognized-format
\* error naming the path and stores nothing in any audio table.
C10_AlwaysUnrecognized ==
    [][C10_Case =>
          /\ call'.err = UnrecognizedErr(AudioRegistry[call'.id].Path)
          /\ wavs' = wavs /\ oggs' = oggs /\ customAudio' = customAudio]_vars

\* A LoadAudio step of an identifier whose registered path has neither the
\* ".ogg" nor the ".wav" suffix.
CustomPath(id) ==
    /\ id \in DOMAIN AudioRegistry
    /\ ~HasSuffix(AudioRegistry[id].Path, OggExt)
    /\ ~HasSuffix(AudioRegistry[id].Path, WavExt)

\* C11: custom-format persistence. With the CustomAudioLoader cleared, every
\* LoadAudio of an identifier that has a resource in the custom table and
\* whose registered path is still a custom-format path returns that resource,
\* calls no loader or decoder and opens no asset.
C11_CustomPersists ==
    [][(/\ call'.op = "LoadAudio" /\ CustomAudioLoader = "nil"
        /\ call'.id \in DOMAIN customAudio /\ CustomPath(call'.id))
       => /\ call'.ret = <<customAudio[call'.id]>> /\ call'.err = NoErr
          /\ call'.opened = <<>> /\ call'.custom = 0 /\ call'.decoded = 0
          /\ call'.decorated = 0
          /\ customAudio' = customAudio]_vars

\* C11 witness: with the loader cleared, LoadAudio has returned the resource
\* the custom loader had produced, without opening the asset.
C11_Witness ==
    /\ call.op = "LoadAudio" /\ CustomAudioLoader = "nil"
    /\ call.id \in DOMAIN customAudio /\ CustomPath(call.id)
    /\ call.ret = <<customAudio[call.id]>> /\ call.opened = <<>>
    /\ decodes["customAudio"][call.id] = 1

C13_DecoratedOnce ==
    [][(/\ IsLoad(call') /\ call'.kind = "audio"
        /\ \E t \in AudioTables : call'.id \in DOMAIN Table(t))
       => call'.decorated = 0]_vars

\* The resource an audio Load has just stored in table t, with the metadata
\* it was loaded from.
StoredIn(t) == call.kind = "audio" /\ IsLoad(call) /\ call.table = t /\ call.store # <<>>

\* C14 (as amended): a first load on the OGG path builds the player over the
\* decoded stream as it is when the metadata has no StreamDecorator, and over
\* exactly decorator(decodedStream) when it has one, the decorator called once.
C14_OggDecoratorOrAsIs ==
    StoredIn("oggs") =>
        LET m == AudioRegistry[call.id]
            p == call.store[1].Player
            d == [codec |-> "vorbis", bytes |-> [fs |-> OpenAssetFunc, path |-> m.Path],
                  wrap |-> "none"]
        IN  /\ oggs[call.id] = call.store[1]
            /\ m.StreamDecorator = "nil" => p.stream = d /\ call.decorated = 0
            /\ m.StreamDecorator = "NopDecorator" => p.stream = d /\ call.decorated = 1
            /\ m.StreamDecorator = "LoopOGG" =>
                   p.stream = [d EXCEPT !.wrap = "InfiniteLoop"] /\ call.decorated = 1

\* C14 witness: an OGG loaded from metadata with no decorator is stored with
\* a player over the stream that is not looped.
C14_Witness ==
    /\ StoredIn("oggs") /\ AudioRegistry[call.id].StreamDecorator = "nil"
    /\ oggs[call.id].Player.stream.wrap = "none"

\* C14 as stated: a first load on the OGG path for metadata with no
\* StreamDecorator builds the player over the decoded stream wrapped in an
\* infinite loop.
C14_OggLoopByDefault ==
    (StoredIn("oggs") /\ AudioRegistry[call.id].StreamDecorator = "nil")
    => call.store[1].Player.stream.wrap = "InfiniteLoop"

\* C15: WAV materialization. A first load on the WAV path stores its result
\* in the WAV table; with no StreamDecorator the player is built from the
\* bytes read into memory and no decorator runs, with a StreamDecorator it is
\* built over exactly decorator(decodedStream) and no read into memory is made
\* (so none can fail).
C15_WavMaterialized ==
    /\ StoredIn("wavs") =>
          LET m == AudioRegistry[call.id]
              p == call.store[1].Player
              d == [codec |-> "wav", bytes |-> [fs |-> OpenAssetFunc, path |-> m.Path],
                    wrap |-> "none"]
          IN  /\ wavs[call.id] = call.store[1]
              /\ m.StreamDecorator = "nil" =>
                     p.from = "bytes" /\ p.stream = d /\ call.decorated = 0
              /\ m.StreamDecorator = "NopDecorator" =>
                     p.from = "stream" /\ p.stream = d /\ call.decorated = 1
              /\ m.StreamDecorator # "LoopOGG"
    /\ (IsLoad(call) /\ call.kind = "audio" /\ call.table = "wavs" /\ call.err.err = "read")
          => AudioRegistry[call.id].StreamDecorator = "nil"

\* C15 witness: a WAV with a decorator has been stored, its player built over
\* the stream.
C15_Witness ==
    /\ StoredIn("wavs") /\ AudioRegistry[call.id].StreamDecorator # "nil"
    /\ wavs[call.id].Player.from = "stream" /\ call.decorated = 1

\* C16: volume mapping. The Audio a Load stores has Volume (v / 2) + 0.5 for
\* the Volume v of the metadata registered at that load (in hundredths:
\* 2 * Volume = v + 100), so -1 gives 0, 0 gives 0.5 and 1 gives 1, and every
\* stored Volume lies in [0, 1].
C16_VolumeMapping ==
    /\ \A t \in AudioTables : StoredIn(t) =>
          LET v == AudioRegistry[call.id].Volume
              a == call.store[1]
          IN  /\ 2 * a.Volume = v + 100
              /\ v = -100 => a.Volume = 0
              /\ v = 0 => a.Volume = 50
              /\ v = 100 => a.Volume = 100
    /\ \A t \in AudioTables : \A id \in DOMAIN Table(t) :
          Table(t)[id].Volume >= 0 /\ Table(t)[id].Volume <= 100

\* C16 witness: metadata of volume -1 has given a stored Audio of volume 0.
C16_Witness ==
    \E t \in AudioTables :
        /\ StoredIn(t) /\ AudioRegistry[call.id].Volume = -100
        /\ Table(t)[call.id].Volume = 0

\* C17: raw byte identity. A LoadRaw that returns for an identifier with no
\* stored Raw returns and stores the content the asset opener yields, at that
\* call, for the registered path; a LoadRaw of an identifier with a stored Raw
\* returns that Raw and opens nothing, whatever the opener would yield now;
\* and nothing but a LoadRaw changes the table.
C17_RawByteIdentity ==
    [][/\ (call'.op = "LoadRaw" /\ call'.ret # <<>>) =>
             IF call'.id \in DOMAIN raws
             THEN /\ call'.ret = <<raws[call'.id]>> /\ call'.opened = <<>>
                  /\ raws' = raws
             ELSE /\ call'.ret[1].ID = call'.id
                  /\ call'.ret[1].Data.bytes =
                         [fs |-> OpenAssetFunc, path |-> RawRegistry[call'.id].Path]
                  /\ raws'[call'.id] = call'.ret[1]
       /\ raws' # raws => call'.op = "LoadRaw"]_vars

\* C17 witness: a LoadRaw has returned the content of the first load after
\* the asset opener was changed to one that yields other bytes.
C17_Witness ==
    /\ call.op = "LoadRaw" /\ call.ret # <<>> /\ call.opened = <<>>
    /\ call.ret[1].Data.bytes.fs # OpenAssetFunc
    /\ call.ret[1].Data.bytes.path = RawRegistry[call.id].Path

\* The errors the taxonomy lists: unregistered identifier, close failure,
\* decode or read failure of each kind, unrecognized audio format.
ListedErrs ==
    {"unregistered", "closing", "decode", "read", "reading", "parsing",
     "creating a font face", "compile", "unrecognized format"}

\* The other panics of a Load: the error of audio.Context.NewPlayer and the
\* failed type assertion of LoopOGG.
OtherErrs == {"new player", "interface conversion"}

\* A Load call opened and decoded at most once and ended in one of two
\* outcomes: the resource of its identifier, or an error of Errs and nothing.
TwoOutcomes(Errs) ==
    IsLoad(call) =>
        /\ Len(call.opened) <= 1 /\ call.decoded <= 1 /\ call.custom <= 1
        /\ \/ /\ call.err = NoErr /\ Len(call.ret) = 1
              /\ call.ret[1].ID = call.id
              /\ call.ret[1] = Table(call.table)[call.id]
           \/ /\ call.err.err \in Errs /\ call.ret = <<>>

\* C19 (as amended): no retry and no placeholder, the fatal errors being the
\* listed ones, the failure to create the audio player and the panic of a
\* decorator.
C19_NoRetryNoPlaceholder == TwoOutcomes(ListedErrs \cup OtherErrs)

\* C19 witness: a Load has failed at the creation of the audio player, after
\* one open and one decode, and returned nothing.
C19_Witness ==
    /\ IsLoad(call) /\ call.err.err = "new player"
    /\ Len(call.opened) = 1 /\ call.decoded = 1 /\ call.ret = <<>>

\* C19 as stated: the fatal errors are the listed ones.
C19_ListedErrorsOnly == TwoOutcomes(ListedErrs)

\* C18: registry upsert. A Set leaves its identifier bound to its metadata
\* and every other binding as it was, and repeating it changes nothing; an
\* Assign of m leaves the identifiers of m bound to the metadata of m and
\* every other binding as it was, which is what applying Set to the pairs of
\* m in any order gives; an Assign of the empty map changes nothing and
\* repeating an Assign changes nothing.
C18_RegistryUpsert ==
    [][/\ call'.op = "Set" =>
             LET id == call'.id
                 info == call'.arg[1]
             IN  /\ DOMAIN AudioRegistry' = DOMAIN AudioRegistry \cup {id}
                 /\ AudioRegistry'[id] = info
                 /\ \A x \in DOMAIN AudioRegistry \ {id} : AudioRegistry'[x] = AudioRegistry[x]
                 /\ Set(AudioRegistry', id, info) = AudioRegistry'
       /\ call'.op = "Assign" =>
             LET m == call'.arg[1] IN
             /\ DOMAIN AudioRegistry' = DOMAIN AudioRegistry \cup DOMAIN m
             /\ \A x \in DOMAIN AudioRegistry' :
                    AudioRegistry'[x] = IF x \in DOMAIN m THEN m[x] ELSE AudioRegistry[x]
             /\ \A o \in Orders(DOMAIN m) :
                    /\ Assign(AudioRegistry, m, o) = AudioRegistry'
                    /\ Assign(AudioRegistry', m, o) = AudioRegistry'
             /\ DOMAIN m = {} => AudioRegistry' = AudioRegistry]_vars

\* C18 witness: an Assign of two pairs with different metadata has been
\* applied, and the registry holds exactly the pairs of its map.
C18_Witness ==
    /\ call.op = "Assign" /\ DOMAIN call.arg[1] = IDs
    /\ AudioRegistry = call.arg[1]
    /\ \E x, y \in IDs : call.arg[1][x] # call.arg[1][y]

\* C20: independent Loaders. No operation on the Loader the client is
\* calling changes a registry, a table, a hook or the history of its second
\* Loader; and a resource in a Loader's table was opened and decoded by that
\* Loader itself, so the same identifier loaded in both was decoded in each.
C20_IndependentLoaders ==
    [][/\ call'.op # "Switch" => other' = other
       /\ call'.op = "Switch" => other' = LoaderFields /\ LoaderFields' = other
       /\ \A id \in IDs :
             /\ id \in DOMAIN raws' =>
                    opens'["raws"][id] >= 1 /\ decodes'["raws"][id] >= 1
             /\ id \in DOMAIN other'.raws =>
                    other'.opens["raws"][id] >= 1 /\ other'.decodes["raws"][id] >= 1]_vars

\* C20 witness: the same identifier is loaded in both Loaders, by one open
\* and one decode in each, with different metadata, hooks and content.
C20_Witness ==
    \E id \in IDs :
        /\ id \in DOMAIN raws /\ id \in DOMAIN other.raws
        /\ opens["raws"][id] = 1 /\ other.opens["raws"][id] = 1
        /\ decodes["raws"][id] = 1 /\ other.decodes["raws"][id] = 1
        /\ RawRegistry[id] # other.RawRegistry[id]
        /\ OpenAssetFunc # other.OpenAssetFunc
        /\ raws[id].Data.bytes.fs # other.raws[id].Data.bytes.fs

\* The zero value of a kind's metadata type.
ZeroInfo(kind) ==
    CASE kind = "raw" -> [Path |-> <<>>]
      [] kind = "image" -> [Path |-> <<>>, FrameWidth |-> 0, FrameHeight |-> 0]
      [] kind = "font" -> [Path |-> <<>>, Size |-> 0, LineSpacing |-> 0]
      [] kind = "audio" -> [Path |-> <<>>, Group |-> 0, Volume |-> 0, StreamDecorator |-> "nil"]

\* C21: read-only metadata accessors. A GetInfo returns the metadata now
\* bound to the identifier in the kind's registry, or the zero value of the
\* metadata type when it is unbound, never fails, opens nothing and changes
\* no registry, table or hook.
C21_GetInfoReadOnly ==
    [][call'.op = "GetInfo" =>
          /\ call'.ret = <<IF call'.id \in DOMAIN Registry(call'.kind)
                           THEN Registry(call'.kind)[call'.id]
                           ELSE ZeroInfo(call'.kind)>>
          /\ call'.err = NoErr /\ call'.opened = <<>> /\ call'.decoded = 0
          /\ registries' = registries /\ tables' = tables /\ hooks' = hooks
          /\ opens' = opens]_vars

\* C21 witness: GetRawInfo has returned metadata bound by a Set made after
\* the identifier was loaded (the path differs from the one loaded).
C21_Witness ==
    /\ call.op = "GetInfo" /\ call.kind = "raw" /\ call.id \in DOMAIN raws
    /\ call.ret = <<RawRegistry[call.id]>>
    /\ raws[call.id].Data.bytes.path # call.ret[1].Path

\* The failures of a Load that are not the failure of Close: unregistered,
\* a rejecting reader or decoder, a failed construction, unrecognized format.
LoadFailures ==
    {"unregistered", "decode", "read", "reading", "parsing", "creating a font face",
     "compile", "unrecognized format", "new player", "interface conversion"}

\* C22: state unchanged on failed load. A Load that fails with one of these
\* failures, or whose custom loader declined, leaves every table and every
\* registry as it was and its identifier absent from its table; and a Load
\* that misses its table for a registered identifier opens the path of the
\* metadata bound at that call (the custom path with no loader opens nothing).
C22_FailedLoadNoChange ==
    [][IsLoad(call') =>
          /\ (\/ call'.err.err \in LoadFailures
              \/ /\ call'.custom = 1
                 /\ CustomStream(CustomAudioLoader, AudioRegistry[call'.id]) = <<>>)
             => /\ tables' = tables /\ registries' = registries
                /\ call'.store = <<>> /\ call'.ret = <<>>
                /\ \A t \in Tables : t = call'.table => call'.id \notin DOMAIN Table(t)'
          /\ (/\ call'.id \notin DOMAIN Table(call'.table)
              /\ call'.id \in DOMAIN Registry(call'.kind)
              /\ ~(call'.table = "customAudio" /\ CustomAudioLoader = "nil"))
             => call'.opened = <<Registry(call'.kind)[call'.id].Path>>]_vars

\* C22 witness: a Load has failed at the decoder for the second time for its
\* identifier: the Load after the first failure was a miss that opened again.
C22_Witness ==
    /\ IsLoad(call) /\ call.err.err \in {"decode", "parsing", "compile", "read", "reading"}
    /\ opens[call.table][call.id] = 2
    /\ call.id \notin DOMAIN Table(call.table)

\* C23 as stated: a Load whose Close failed has stored no entry for its
\* identifier.
C23_CloseFailureNotMemoized ==
    (IsLoad(call) /\ call.err.err = "closing")
    => call.store = <<>> /\ call.id \notin DOMAIN Table(call.table)

\* C24: memoized implies registered. Every identifier of a memoization table
\* is bound in the registry of the table's kind.
C24_MemoizedRegistered ==
    \A t \in Tables : DOMAIN Table(t) \subseteq DOMAIN Registry(TableKind(t))

\* C24 witness: with a resource memoized, a Load of an identifier that is
\* not bound has failed and stored nothing.
C24_Witness ==
    /\ IsLoad(call) /\ call.err.err = "unregistered"
    /\ call.id \notin DOMAIN Registry(call.kind)
    /\ \E t \in Tables : TableKind(t) = call.kind /\ DOMAIN Table(t) # {}
    /\ \A t \in Tables : call.id \notin DOMAIN Table(t)

\* C26: identity and echoed configuration. Across every step, each entry of
\* each memoization table has its ID equal to its key; an entry that was
\* there before the step is the same entry after it; an entry the step put
\* there echoes the metadata bound to the identifier at that step: an Image
\* the frame width and height of its ImageInfo, an Audio the group of its
\* AudioInfo.
C26_IdentityAndEcho ==
    [][\A t \in Tables : \A id \in DOMAIN Table(t)' :
          LET res == Table(t)'[id]
              m == Registry(TableKind(t))[id]
          IN  /\ res.ID = id
              /\ id \in DOMAIN Table(t) => res = Table(t)[id]
              /\ id \notin DOMAIN Table(t) =>
                    /\ id \in DOMAIN Registry(TableKind(t))
                    /\ t = "images" => /\ res.DefaultFrameWidth = m.FrameWidth
                                       /\ res.DefaultFrameHeight = m.FrameHeight
                    /\ t \in AudioTables => res.Group = m.Group]_vars

\* C26 witness: the ImageInfo of a loaded identifier has been replaced by a
\* Set: the stored Image still echoes the frame size of its first load,
\* which differs from the frame size bound now.
C26_Witness ==
    /\ call.op = "Set" /\ call.kind = "image" /\ call.id \in DOMAIN images
    /\ images[call.id].ID = call.id
    /\ images[call.id].DefaultFrameWidth = 16
    /\ images[call.id].DefaultFrameHeight = 32
    /\ ImageRegistry[call.id].FrameWidth = 0

\* C27: custom resources are reachable only through LoadAudio. A LoadWAV or
\* LoadOGG of an identifier that is in the custom table and not in the
\* call's own table does not return the custom resource: it opens the asset
\* of the bound metadata, runs its own decoder once and calls no custom
\* loader; and every LoadWAV or LoadOGG that returns without opening returns
\* the entry of its own table.
C27_CustomOnlyViaLoadAudio ==
    [][call'.op \in {"LoadWAV", "LoadOGG"} =>
          LET own == IF call'.op = "LoadWAV" THEN wavs ELSE oggs IN
          /\ call'.table = (IF call'.op = "LoadWAV" THEN "wavs" ELSE "oggs")
          /\ (call'.id \in DOMAIN customAudio /\ call'.id \notin DOMAIN own) =>
                /\ call'.opened = <<AudioRegistry[call'.id].Path>>
                /\ call'.decoded = 1 /\ call'.custom = 0
                /\ call'.ret # <<customAudio[call'.id]>>
                /\ customAudio' = customAudio
          /\ (call'.opened = <<>> /\ call'.ret # <<>>) =>
                call'.id \in DOMAIN own /\ call'.ret = <<own[call'.id]>>]_vars

\* C27 witness: LoadWAV has decoded and stored a resource of its own for an
\* identifier that the custom table holds.
C27_Witness ==
    /\ call.op = "LoadWAV" /\ call.id \in DOMAIN customAudio
    /\ call.opened # <<>> /\ call.store # <<>>
    /\ wavs[call.id] # customAudio[call.id]

\* The entry of identifier id in table t is the same before and after a step.
SameEntry(t, id) ==
    /\ (id \in DOMAIN Table(t)') = (id \in DOMAIN Table(t))
    /\ id \in DOMAIN Table(t) => Table(t)'[id] = Table(t)[id]

\* The binding of identifier id in the registry of kind k is the same before
\* and after a step.
SameBinding(k, id) ==
    /\ (id \in DOMAIN Registry(k)') = (id \in DOMAIN Registry(k))
    /\ id \in DOMAIN Registry(k) => Registry(k)'[id] = Registry(k)[id]

\* C25: frame of Load and Set. A Load of kind K and identifier id writes a
\* table of K, changes no registry and changes no entry other than the one
\* of id in that table: not the entry of another identifier, not the entry
\* of the same integer in a table of another kind. A Set or Assign on the
\* registry of K changes no memoization table and no binding of another
\* kind, and a Set(id) no binding of another identifier.
C25_Frame ==
    [][/\ IsLoad(call') =>
             /\ TableKind(call'.table) = call'.kind
             /\ registries' = registries
             /\ \A t \in Tables : \A id \in IDs :
                    (t # call'.table \/ id # call'.id) => SameEntry(t, id)
       /\ call'.op \in {"Set", "Assign"} =>
             /\ tables' = tables
             /\ \A k \in Kinds : \A id \in IDs :
                    (k # call'.kind \/ (call'.op = "Set" /\ id # call'.id))
                    => SameBinding(k, id)]_vars

\* C25 witness: LoadImage has stored the Image of an identifier whose
\* integer is also a key of the raw table and of the raw registry, while
\* the image table holds another identifier as well.
C25_Witness ==
    /\ call.op = "LoadImage" /\ call.store # <<>>
    /\ call.id \in DOMAIN raws /\ call.id \in DOMAIN RawRegistry
    /\ raws[call.id].ID = call.id
    /\ images[call.id] = call.store[1]
    /\ \E id \in DOMAIN ImageRegistry : id # call.id

\* C28: no open without a custom loader. A LoadAudio that reaches the custom
\* fallback for an identifier that is not in the custom table: with a nil
\* CustomAudioLoader it fails with the unrecognized-format error, opens and
\* closes nothing and calls no loader, whatever the custom table holds; with
\* an installed loader that declines, the stream was opened, given to the
\* loader and closed once, nothing is stored and the call fails.
C28_NoOpenWithoutLoader ==
    [][(/\ call'.op = "LoadAudio" /\ CustomPath(call'.id)
        /\ call'.id \notin DOMAIN customAudio)
       => LET info == AudioRegistry[call'.id] IN
          /\ CustomAudioLoader = "nil" =>
                /\ call'.err = UnrecognizedErr(info.Path)
                /\ call'.opened = <<>> /\ call'.closed = 0 /\ call'.custom = 0
                /\ call'.ret = <<>>
                /\ opens' = opens /\ tables' = tables
          /\ (CustomAudioLoader # "nil" /\ CustomStream(CustomAudioLoader, info) = <<>>) =>
                /\ call'.opened = <<info.Path>> /\ call'.custom = 1
                /\ call'.closed = 1
                /\ call'.err \in {UnrecognizedErr(info.Path),
                                  PathErr("closing", "custom audio", info.Path)}
                /\ call'.ret = <<>> /\ tables' = tables]_vars

\* C28 witness: with a nil loader and another identifier in the custom
\* table, LoadAudio of an identifier that is not there has failed with the
\* unrecognized-format error and opened nothing.
C28_Witness ==
    /\ call.op = "LoadAudio" /\ CustomAudioLoader = "nil" /\ CustomPath(call.id)
    /\ call.id \notin DOMAIN customAudio
    /\ \E id \in DOMAIN customAudio : id # call.id
    /\ call.err = UnrecognizedErr(AudioRegistry[call.id].Path)
    /\ call.opened = <<>> /\ opens["customAudio"][call.id] = 0

====
